---- MODULE Spec2Model ----
(***************************************************************************)
(* A model of the kvdo request-lifecycle core.                             *)
(*                                                                         *)
(* Part 1 models the recovery-journal lock counter of                      *)
(* src/vdo/base/lockCounter.c at the grain of its atomic operations: each  *)
(* zone thread (the journal thread, the logical zones, the physical zones) *)
(* runs its calls one step per shared-memory access, and the steps of      *)
(* different threads interleave freely.                                    *)
(*                                                                         *)
(* Part 2 models the write path of a data VIO, one step per handler run on *)
(* a zone thread: the logical lock, the allocation, the hash lock, the     *)
(* recovery journal, the slab journals and reference counts, the block map *)
(* and the acknowledgement.                                                *)
(*                                                                         *)
(* Part 3 models the compression state of a data VIO                       *)
(* (src/vdo/base/compressionState.h) and the packer, at the grain of the   *)
(* atomic operations on the state: the data VIO's own calls and the calls  *)
(* of cancel_compression from other threads interleave freely.             *)
(*                                                                         *)
(* Part 4 models the kernel side of a request (src/vdo/kernel/dataKVIO.c): *)
(* the data_kvio made for a user bio, the acknowledgement of the bio, the  *)
(* continuation of a discard over several blocks, and the return of the    *)
(* data_kvio to its pool, one step per work item.  Part 5 adds the entry   *)
(* into read-only mode and the drain of a slab (src/vdo/slab.c).  Part 6   *)
(* packs and unpacks a block map entry (src/vdo/base/blockMapEntry.h); a   *)
(* physical block number is the sequence of its eight bytes, the least     *)
(* significant first, so that all of its 64 bits are kept.                 *)
(***************************************************************************)
EXTENDS Integers, Naturals, Sequences, FiniteSets, TLC

\* ------------------------------------------------------------- bounds
\* The number of locks (recovery journal blocks) of the lock counter.
Locks == 1
\* The number of logical zones and of physical zones.
LogicalZones == 2
PhysicalZones == 1
\* The largest value the journal thread initializes a journal count to.
MaxValue == 2
\* The most references one zone takes on one lock at a time.
MaxRefs == 2
\* The most stray decrements of a journal count (SpecUnderflow only).
MaxDecrements == 3

\* The data VIOs of the pool, the logical blocks and the distinct non-zero
\* block contents (fingerprints) of the write path.
DataVios == 2
LogicalBlocks == 2
Fingerprints == 2
\* The slabs of the depot and the data blocks of each.
SlabCount == 2
SlabBlocks == 1
\* The entries of a recovery journal block and of a slab journal block, and
\* the blocks of a slab journal.
EntriesPerBlock == 2
SlabJournalEntries == 2
SlabJournalSize == 2
\* The most writes launched in one run.
MaxWrites == 2

\* The data VIOs on the compression path, the threads that may cancel their
\* compression, and the most calls of cancel_compression in one run.
CompressVios == 2
Cancellers == 2
MaxCancels == 3
\* The fragments that fill a bin of the packer.
BinSlots == 2

\* The size of a block and the largest size of a user bio, in the unit in
\* which the kernel side counts the offset and the size of a bio.
VDO_BLOCK_SIZE == 2
MaxBioSize == 5
\* The bios served before the one in hand.
MaxServed == 2
\* The most blocks allocated from the slab in one run.
MaxAllocations == 2

\* ------------------------------------------------------------- constants
UINT16_MAX == 65535
UINT16_MOD == UINT16_MAX + 1

ZONE_TYPE_JOURNAL == "journal"
ZONE_TYPE_LOGICAL == "logical"
ZONE_TYPE_PHYSICAL == "physical"

LockNumbers == 0 .. (Locks - 1)
JournalThread == <<ZONE_TYPE_JOURNAL, 0>>
LogicalThreads == {ZONE_TYPE_LOGICAL} \X (0 .. (LogicalZones - 1))
PhysicalThreads == {ZONE_TYPE_PHYSICAL} \X (0 .. (PhysicalZones - 1))
ZoneThreads == LogicalThreads \cup PhysicalThreads
Threads == {JournalThread} \cup ZoneThreads

\* ---- the write path
ZERO_BLOCK == 0
EMPTY_REFERENCE_COUNT == 0
MAXIMUM_REFERENCE_COUNT == 254
PROVISIONAL_REFERENCE_COUNT == 255
VDO_SUCCESS == "VDO_SUCCESS"
VDO_REF_COUNT_INVALID == "VDO_REF_COUNT_INVALID"
VDO_NO_SPACE == "VDO_NO_SPACE"
EXISTS == "EXISTS"
SLAB_REBUILT == "SLAB_REBUILT"
SLAB_REQUIRES_SCRUBBING == "SLAB_REQUIRES_SCRUBBING"
SLAB_REBUILDING == "SLAB_REBUILDING"
DATA_INCREMENT == "DATA_INCREMENT"
DATA_DECREMENT == "DATA_DECREMENT"
NULL == -1

Vios == 1 .. DataVios
Lbns == 1 .. LogicalBlocks
\* The contents of a block: 0 is the zero block (and a discard).
Contents == 0 .. Fingerprints
Slabs == 0 .. (SlabCount - 1)
Pbns == 1 .. (SlabCount * SlabBlocks)

\* ---- the compression path: vio_compression_status
VIO_PRE_COMPRESSOR == 0
VIO_COMPRESSING == 1
\* (mutant) the enum declares VIO_PACKING ahead of the other statuses.
VIO_PACKING_declared_first == VIO_PRE_COMPRESSOR
VIO_PACKING == 2
VIO_POST_PACKER == 3

CVios == 1 .. CompressVios
CancelThreads == 1 .. Cancellers

\* ---- the kernel side of a request
VDO_READ_ONLY == "VDO_READ_ONLY"
VDO_INVALID_ADMIN_STATE == "VDO_INVALID_ADMIN_STATE"
UDS_ASSERTION_FAILED == "UDS_ASSERTION_FAILED"
VDO_INVALID_FRAGMENT == "VDO_INVALID_FRAGMENT"
READ == "READ"
WRITE == "WRITE"
DISCARD == "DISCARD"
EIO == "EIO"

VARIABLES
    \* struct lock_counter
    journal_counters,          \* uint16_t[locks]
    journal_decrement_counts,  \* Atomic32[locks]
    logical_counters,          \* uint16_t[locks * logical_zones]
    physical_counters,         \* uint16_t[locks * physical_zones]
    logical_zone_counts,       \* Atomic32[locks]
    physical_zone_counts,      \* Atomic32[locks]
    notifying,                 \* AtomicBool
    completionQueued,          \* times the completion is enqueued on the journal thread
    \* the threads
    pc,                        \* where each thread is in the call it is running
    lock_arg,                  \* the lock_number of that call
    \* the owner (the recovery journal) and the log
    inUse,                     \* the locks the owner has initialized and not reclaimed
    reapedLogical,             \* locks found logically unlocked in this reap
    callbacksSinceAck,         \* owner callbacks invoked since acknowledge_unlock
    observedUnderflow,         \* locks whose underflow the journal thread has seen
    assertLog,                 \* the messages of the assertions that failed
    readOnly,                  \* whether the device is in read-only mode
    \* the write path
    data_vios,                 \* the data VIOs of the pool
    logical_locks,             \* per LBN: the lock holder, then its waiters
    hash_locks,                \* per fingerprint: the hash lock, if any
    dedupe_index,              \* per fingerprint: the advice of the index
    block_map,                 \* per LBN: the PBN it maps to (0: unmapped)
    dirty_pages,               \* per logical zone: the journal block its page locks
    reference_counts,          \* per PBN: the reference count of its slab
    free_blocks,               \* per slab: its free block count
    block_contents,            \* per PBN: the contents written there
    slab_status,               \* per slab: its status
    slab_journals,             \* per slab: its journal
    journaled_counts,          \* per PBN: the count its slab journal records
    recovery_journal,          \* the recovery journal
    submissions,               \* the order in which writes were submitted
    \* the compression path
    compression_state,         \* per data VIO: struct vio_compression_state
    compress_pc,               \* per data VIO: where it is on the path
    compress_seen,             \* per data VIO: the state its call has loaded
    packer_bin,                \* the data VIOs blocked in the packer
    cancellers,                \* per cancelling thread: its call
    compress_calls,            \* what the calls made so far have returned
    \* the kernel side of a request
    kernel_layer,              \* struct kernel_layer: its configuration, its limiter
    data_kvio,                 \* struct data_kvio: the one the request uses
    user_bio,                  \* the bio of the request, as its submitter sees it
    read_block,                \* struct read_block of the data_kvio
    served_bios,               \* the bios completed before this one
    \* the drain of a slab
    vdo_slab,                  \* struct vdo_slab: its admin state, its journal, its counts
    \* the block map entry
    map_origin,                \* what made the mapping: a test input, or the write path
    map_location,              \* the PBN and the mapping state to pack
    map_entry,                 \* block_map_entry: the packed entry
    map_unpacked,              \* struct data_location: what was unpacked
    \* the reference count of a block
    reference_call             \* the last call of modify_slab_reference_count

lockVars == <<journal_counters, journal_decrement_counts, logical_counters,
              physical_counters, logical_zone_counts, physical_zone_counts,
              notifying, completionQueued>>
threadVars == <<pc, lock_arg>>
ownerVars == <<inUse, reapedLogical, callbacksSinceAck, observedUnderflow,
               assertLog, readOnly>>
writeVars == <<data_vios, logical_locks, hash_locks, dedupe_index, block_map,
               dirty_pages, reference_counts, free_blocks, block_contents,
               slab_status, slab_journals, journaled_counts,
               recovery_journal, submissions>>
compressVars == <<compression_state, compress_pc, compress_seen, packer_bin,
                  cancellers, compress_calls>>
\* The state of the parts after the write path.
kvioVars == <<kernel_layer, data_kvio, user_bio, read_block, served_bios>>
slabVars == <<vdo_slab>>
entryVars == <<map_origin, map_location, map_entry, map_unpacked>>
modifyVars == <<reference_call>>
laterVars == <<compressVars, kvioVars, slabVars, entryVars, modifyVars>>
vars == <<lockVars, threadVars, ownerVars, writeVars, laterVars>>

\* ------------------------------------------------------------- the parts at rest
\* struct vio_compression_state
vio_compression_state(status, may_not_compress) ==
    [status |-> status, may_not_compress |-> may_not_compress]

\* A cancelling thread that is making no call.
idle_canceller ==
    [pc |-> "idle", vio |-> 0,
     seen |-> vio_compression_state(VIO_PRE_COMPRESSOR, FALSE)]

\* No call has returned yet.
no_call ==
    [fn |-> "none", vio |-> 0, value |-> FALSE,
     state |-> vio_compression_state(VIO_PRE_COMPRESSOR, FALSE)]

\* Every data VIO is about to enter the compression path.
InitCompress ==
    /\ compression_state =
           [v \in CVios |-> vio_compression_state(VIO_PRE_COMPRESSOR, FALSE)]
    /\ compress_pc = [v \in CVios |-> "pre"]
    /\ compress_seen =
           [v \in CVios |-> vio_compression_state(VIO_PRE_COMPRESSOR, FALSE)]
    /\ packer_bin = {}
    /\ cancellers = [c \in CancelThreads |-> idle_canceller]
    /\ compress_calls = [cancels |-> 0,
                         true_cancels |-> [v \in CVios |-> 0],
                         last |-> no_call]

\* The data_kvio in its pool.
pooled_data_kvio ==
    [stage |-> "pool", bio |-> NULL, lbn |-> 0, offset |-> 0,
     isPartial |-> FALSE, remaining_discard |-> 0, hasDiscardPermit |-> FALSE,
     operation |-> "none", callback |-> "none", result |-> VDO_SUCCESS,
     compression |-> [size |-> 0]]

\* No bio has been submitted.
no_bio ==
    [kind |-> "none", block |-> 0, offset |-> 0, size |-> 0,
     completions |-> 0, error |-> VDO_SUCCESS, completed_by |-> "none",
     processed |-> {}, completed_from |-> pooled_data_kvio,
     copied |-> "none"]

\* The read_block of a data_kvio that has read nothing.
no_read_block ==
    [callback |-> "none", status |-> VDO_SUCCESS, mapping_state |-> 0,
     data |-> "none"]

\* A layer with no request in it.
idle_kernel_layer(use_bio_ack_queue, ack_reads) ==
    [use_bio_ack_queue |-> use_bio_ack_queue,
     USE_BIO_ACK_QUEUE_FOR_READ |-> ack_reads,
     request_limiter |-> 0,
     discard_limiter |-> 0,
     allocation_failures |-> 0,
     storage |-> {}]

InitKvio ==
    /\ kernel_layer = idle_kernel_layer(FALSE, FALSE)
    /\ data_kvio = pooled_data_kvio
    /\ user_bio = no_bio
    /\ read_block = no_read_block
    /\ served_bios = <<>>

\* A slab as make_slab leaves one that is not new: in normal operation, with
\* a journal, and with no reference counts yet (reference_counts == NULL).
open_slab ==
    [state |-> "ADMIN_STATE_NORMAL_OPERATION",
     next_state |-> "none",
     operation |-> "none",
     status |-> SLAB_REBUILT,
     queue |-> "none",
     journal |-> [dirty |-> FALSE, active |-> FALSE, writes |-> 0,
                  decoding |-> FALSE, loaded |-> FALSE],
     reference_counts |-> [allocated |-> FALSE, dirty |-> FALSE,
                           active |-> FALSE, writes |-> 0],
     allocations |-> 0,
     allocation_result |-> "none",
     result |-> "none"]

InitSlab == vdo_slab = open_slab

\* struct data_location
data_location(pbn, state) == [pbn |-> pbn, state |-> state]

\* Nothing is packed or unpacked yet.
no_entry == [mapping_state |-> 0, pbn_high_nibble |-> 0,
             pbn_low_word |-> <<0, 0, 0, 0>>, made |-> FALSE]
no_location == [pbn |-> <<0, 0, 0, 0, 0, 0, 0, 0>>, state |-> 0, made |-> FALSE]

InitEntry ==
    /\ map_origin = "input"
    /\ map_location = data_location(<<0, 0, 0, 0, 0, 0, 0, 0>>, 0)
    /\ map_entry = no_entry
    /\ map_unpacked = no_location

\* No reference count has been modified.
no_modification ==
    [made |-> FALSE, pbn |-> ZERO_BLOCK, type |-> "none", sequence_number |-> 0,
     slab |-> NULL, unrecovered |-> FALSE, result |-> VDO_SUCCESS,
     has_provisional_reference |-> FALSE,
     had_provisional_reference |-> FALSE]

InitModify == reference_call = no_modification

\* The parts after the write path, at rest.
InitLater ==
    /\ InitCompress
    /\ InitKvio
    /\ InitSlab
    /\ InitEntry
    /\ InitModify

\* ------------------------------------------------------------- permassert.c
\* assertion_failed_log_only: the message is logged and UDS_ASSERTION_FAILED
\* returned; nothing else happens.  The value is the log after the assertion.
assertion_failed_log_only(log, message) == log \cup {message}

\* ASSERT_LOG_ONLY(expr, message)
ASSERT_LOG_ONLY(log, expr, message) ==
    IF expr THEN log ELSE assertion_failed_log_only(log, message)

\* assertion_failed: the message is logged and the code of the caller
\* returned; nothing else happens.  The value is the log after the assertion
\* and the value returned.
assertion_failed_returning_success(log, code, message) == [log |-> log \cup {message}, result |-> VDO_SUCCESS]

assertion_failed(log, code, message) == [log |-> log \cup {message}, result |-> code]

\* ASSERT(expr, message): UDS_SUCCESS, or assertion_failed with
\* UDS_ASSERTION_FAILED.
ASSERT(log, expr, message) ==
    IF expr THEN [log |-> log, result |-> VDO_SUCCESS]
    ELSE assertion_failed(log, UDS_ASSERTION_FAILED, message)

\* ------------------------------------------------------------- lockCounter.c
make_lock_counter ==
    /\ journal_counters = [i \in LockNumbers |-> 0]
    /\ journal_decrement_counts = [i \in LockNumbers |-> 0]
    /\ logical_counters = [i \in 0 .. (Locks * LogicalZones - 1) |-> 0]
    /\ physical_counters = [i \in 0 .. (Locks * PhysicalZones - 1) |-> 0]
    /\ logical_zone_counts = [i \in LockNumbers |-> 0]
    /\ physical_zone_counts = [i \in LockNumbers |-> 0]
    /\ notifying = FALSE
    /\ completionQueued = 0

\* The value of the atomic zone count of a lock for a zone type.
get_zone_count_ptr(lock_number, zone_type) ==
    IF zone_type = ZONE_TYPE_LOGICAL
        THEN logical_zone_counts[lock_number]
        ELSE physical_zone_counts[lock_number]

\* (mutant) every zone is given the counter of the lock.
zone_counter_of_any_zone(lock_number, zone_id) == lock_number

\* The index of a zone's counter for a lock in its array.
zone_counter(lock_number, zone_id) == (Locks * zone_id) + lock_number

\* The value of the counter of a lock for a zone.
get_counter(lock_number, zone_type, zone_id) ==
    IF zone_type = ZONE_TYPE_JOURNAL
        THEN journal_counters[zone_counter(lock_number, zone_id)]
        ELSE IF zone_type = ZONE_TYPE_LOGICAL
            THEN logical_counters[zone_counter(lock_number, zone_id)]
            ELSE physical_counters[zone_counter(lock_number, zone_id)]

\* *get_counter(...) = value
store_counter(lock_number, zone_type, zone_id, value) ==
    LET i == zone_counter(lock_number, zone_id) IN
    /\ journal_counters' =
           IF zone_type = ZONE_TYPE_JOURNAL
               THEN [journal_counters EXCEPT ![i] = value]
               ELSE journal_counters
    /\ logical_counters' =
           IF zone_type = ZONE_TYPE_LOGICAL
               THEN [logical_counters EXCEPT ![i] = value]
               ELSE logical_counters
    /\ physical_counters' =
           IF zone_type \notin {ZONE_TYPE_JOURNAL, ZONE_TYPE_LOGICAL}
               THEN [physical_counters EXCEPT ![i] = value]
               ELSE physical_counters

\* atomicAdd32: the new value of a 32-bit atomic after adding delta.  The
\* atomic is held as the signed reading of its 32 bits, so that 0 - 1 is -1
\* (the bits 0xFFFFFFFF) and a test against 0 reads the same; the counts of
\* this model stay far from the 2^31 where the two readings part.
atomicAdd32(value, delta) == value + delta

\* atomicAdd32(get_zone_count_ptr(counter, lock_number, zone_type), delta)
add_zone_count(lock_number, zone_type, delta) ==
    /\ logical_zone_counts' =
           IF zone_type = ZONE_TYPE_LOGICAL
               THEN [logical_zone_counts EXCEPT
                        ![lock_number] = atomicAdd32(@, delta)]
               ELSE logical_zone_counts
    /\ physical_zone_counts' =
           IF zone_type = ZONE_TYPE_LOGICAL
               THEN physical_zone_counts
               ELSE [physical_zone_counts EXCEPT
                        ![lock_number] = atomicAdd32(@, delta)]

\* (mutant) the journal zone counts as locked only while references remain.
journal_zone_locked_greater(journal_value, decrements) ==
    journal_value > decrements

\* journal_value != decrements, the value is_journal_zone_locked returns.
journal_zone_locked(journal_value, decrements) == journal_value # decrements

\* The value is_journal_zone_locked returns in the current state.
is_journal_zone_locked(lock_number) ==
    journal_zone_locked(get_counter(lock_number, ZONE_TYPE_JOURNAL, 0),
                        journal_decrement_counts[lock_number])

\* The log after the assertion of is_journal_zone_locked.
is_journal_zone_locked_log(log, journal_value, decrements) ==
    ASSERT_LOG_ONLY(log, decrements <= journal_value,
                    "journal zone lock counter must not underflow")

\* (mutant) only the journal zone keeps a lock locked.
is_locked_for_journal_zone_only(lock_number, zone_type) ==
    is_journal_zone_locked(lock_number)

\* The value is_locked returns in the current state.
is_locked(lock_number, zone_type) ==
    \/ is_journal_zone_locked(lock_number)
    \/ get_zone_count_ptr(lock_number, zone_type) # 0

\* The log after the assertions of is_locked.
is_locked_log(log, lock_number, zone_type) ==
    is_journal_zone_locked_log(
        ASSERT_LOG_ONLY(log, zone_type # ZONE_TYPE_JOURNAL,
                        "is_locked() called for non-journal zone"),
        get_counter(lock_number, ZONE_TYPE_JOURNAL, 0),
        journal_decrement_counts[lock_number])

\* The log after assert_on_journal_thread, called on thread t.
assert_on_journal_thread(log, t, caller) ==
    ASSERT_LOG_ONLY(log, t = JournalThread, <<caller, "called from journal zone">>)

\* A call moves thread t from one place to the next, on lock_number; a
\* thread that has returned holds no lock_number. The lock counter never
\* touches the write path.
goto(t, from, to, lock_number) ==
    /\ pc[t] = from
    /\ pc' = [pc EXCEPT ![t] = to]
    /\ lock_arg' = [lock_arg EXCEPT
                       ![t] = IF to = "idle" THEN 0 ELSE lock_number]
    /\ UNCHANGED <<writeVars, laterVars>>

\* ---- the callers' discipline (the recovery journal, the block map and the
\* ---- slab journals), as section 4.5 of the specification gives it.
\* The owner initializes a lock it has reclaimed, to the number of entries
\* of the journal block.
may_initialize(lock_number, value) ==
    /\ lock_number \notin inUse
    /\ value \in 1 .. MaxValue

\* An entry of the block still holds its journal-zone reference.
entry_holds_journal_reference(lock_number) ==
    /\ lock_number \in inUse
    /\ journal_counters[lock_number] > journal_decrement_counts[lock_number]

\* A zone takes a reference for an entry that still holds the journal zone.
may_acquire(t, lock_number) ==
    /\ entry_holds_journal_reference(lock_number)
    /\ get_counter(lock_number, t[1], t[2]) < MaxRefs

\* (mutant) a zone releases a reference whether or not it holds one.
may_release_unheld(t, lock_number) == TRUE

\* A zone releases a reference it holds.
may_release(t, lock_number) ==
    get_counter(lock_number, t[1], t[2]) >= 1

\* A zone gives up an entry's journal-zone reference once it holds the lock
\* for its own zone.
may_release_journal_from_other_zone(t, lock_number) ==
    /\ entry_holds_journal_reference(lock_number)
    /\ get_counter(lock_number, t[1], t[2]) >= 1

\* ---- initialize_lock_count(counter, lock_number, value): the load of the
\* ---- decrement count, its assertion and the store of the journal value.
initialize_lock_count(lock_number, value) ==
    LET t == JournalThread
        journal_value == get_counter(lock_number, ZONE_TYPE_JOURNAL, 0)
        decrement_count == journal_decrement_counts[lock_number]
    IN  /\ may_initialize(lock_number, value)
        /\ goto(t, "idle", "init_store", lock_number)
        /\ assertLog' = ASSERT_LOG_ONLY(
               assert_on_journal_thread(assertLog, t, "initialize_lock_count"),
               journal_value = decrement_count,
               "count to be initialized not in use")
        /\ store_counter(lock_number, ZONE_TYPE_JOURNAL, 0, value)
        /\ UNCHANGED <<journal_decrement_counts, logical_zone_counts,
                       physical_zone_counts, notifying, completionQueued,
                       inUse, reapedLogical, callbacksSinceAck,
                       observedUnderflow, readOnly>>

\* (mutant) the decrement count of the previous use is kept.
initialize_lock_count_store_keeping_decrements ==
    /\ goto(JournalThread, "init_store", "idle", lock_arg[JournalThread])
    /\ inUse' = inUse \cup {lock_arg[JournalThread]}
    /\ observedUnderflow' = observedUnderflow \ {lock_arg[JournalThread]}
    /\ UNCHANGED <<lockVars, reapedLogical, callbacksSinceAck, assertLog,
                   readOnly>>

\* ---- initialize_lock_count: atomicStore32(decrement_count, 0); the owner
\* ---- then has the block in use.
initialize_lock_count_store ==
    LET t == JournalThread
        lock_number == lock_arg[t]
    IN  /\ goto(t, "init_store", "idle", lock_number)
        /\ journal_decrement_counts' =
               [journal_decrement_counts EXCEPT ![lock_number] = 0]
        /\ inUse' = inUse \cup {lock_number}
        /\ observedUnderflow' = observedUnderflow \ {lock_number}
        /\ UNCHANGED <<journal_counters, logical_counters, physical_counters,
                       logical_zone_counts, physical_zone_counts, notifying,
                       completionQueued, reapedLogical, callbacksSinceAck,
                       assertLog, readOnly>>

\* (mutant) the zone count is added to on the second reference, not the first.
first_acquire_off_by_one(current_value) == current_value = 1

\* if (*current_value == 0): this zone is acquiring the lock for the first time.
first_acquire(current_value) == current_value = 0

\* ---- acquire_lock_count_reference: the assertions and, for a zone's first
\* ---- reference, the atomicAdd32 of 1 to the zone count.
acquire_lock_count_reference(t, lock_number) ==
    LET zone_type == t[1]
        zone_id == t[2]
        current_value == get_counter(lock_number, zone_type, zone_id)
    IN  /\ may_acquire(t, lock_number)
        /\ goto(t, "idle", "acquire_store", lock_number)
        /\ assertLog' = ASSERT_LOG_ONLY(
               ASSERT_LOG_ONLY(assertLog, zone_type # ZONE_TYPE_JOURNAL,
                   "invalid lock count increment from journal zone"),
               current_value < UINT16_MAX,
               "increment of lock counter must not overflow")
        /\ IF first_acquire(current_value)
               THEN add_zone_count(lock_number, zone_type, 1)
               ELSE UNCHANGED <<logical_zone_counts, physical_zone_counts>>
        /\ UNCHANGED <<journal_counters, journal_decrement_counts,
                       logical_counters, physical_counters, notifying,
                       completionQueued, inUse, reapedLogical,
                       callbacksSinceAck, observedUnderflow, readOnly>>

\* ---- acquire_lock_count_reference: *current_value += 1.
acquire_lock_count_reference_store(t) ==
    LET lock_number == lock_arg[t]
        current_value == get_counter(lock_number, t[1], t[2])
    IN  /\ goto(t, "acquire_store", "idle", lock_number)
        /\ store_counter(lock_number, t[1], t[2],
                         (current_value + 1) % UINT16_MOD)
        /\ UNCHANGED <<journal_decrement_counts, logical_zone_counts,
                       physical_zone_counts, notifying, completionQueued,
                       ownerVars>>

\* The value release_reference stores and returns.
release_reference_value(current_value) ==
    (current_value + UINT16_MOD - 1) % UINT16_MOD

\* The log after the assertion of release_reference.
release_reference_log(log, current_value) ==
    ASSERT_LOG_ONLY(log, current_value >= 1,
                    "decrement of lock counter must not underflow")

\* (mutant) every release of a zone goes on to the zone count.
release_is_last_of_zone_always(new_value) == TRUE

\* if (release_reference(...) != 0) return;
release_is_last_of_zone(new_value) == new_value = 0

\* ---- release_lock_count_reference: the assertion and release_reference.
release_lock_count_reference(t, lock_number) ==
    LET zone_type == t[1]
        zone_id == t[2]
        current_value == get_counter(lock_number, zone_type, zone_id)
        new_value == release_reference_value(current_value)
    IN  /\ may_release(t, lock_number)
        /\ goto(t, "idle",
                IF release_is_last_of_zone(new_value)
                    THEN "release_add" ELSE "idle",
                lock_number)
        /\ assertLog' = release_reference_log(
               ASSERT_LOG_ONLY(assertLog, zone_type # ZONE_TYPE_JOURNAL,
                   "invalid lock count decrement from journal zone"),
               current_value)
        /\ store_counter(lock_number, zone_type, zone_id, new_value)
        /\ UNCHANGED <<journal_decrement_counts, logical_zone_counts,
                       physical_zone_counts, notifying, completionQueued,
                       inUse, reapedLogical, callbacksSinceAck,
                       observedUnderflow, readOnly>>

\* (mutant) every zone that drops its last reference notifies.
release_is_last_of_type_always(new_zone_count) == TRUE

\* (mutant) the last zone of a type to let go does not notify.
release_is_last_of_type_never(new_zone_count) == FALSE

\* if (atomicAdd32(zone_count, -1) == 0): the zone was the last holder of
\* its type.
release_is_last_of_type(new_zone_count) == new_zone_count = 0

\* ---- release_lock_count_reference: the atomicAdd32 of -1 to the zone count.
release_lock_count_reference_add(t) ==
    LET lock_number == lock_arg[t]
        zone_type == t[1]
        new_zone_count ==
            atomicAdd32(get_zone_count_ptr(lock_number, zone_type), -1)
    IN  /\ goto(t, "release_add",
                IF release_is_last_of_type(new_zone_count)
                    THEN "notify" ELSE "idle",
                lock_number)
        /\ add_zone_count(lock_number, zone_type, -1)
        /\ UNCHANGED <<journal_counters, journal_decrement_counts,
                       logical_counters, physical_counters, notifying,
                       completionQueued, ownerVars>>

\* (mutant) the flag is set without being compared.
compareAndSwapBool_unconditional(current, expected, new) ==
    [swapped |-> TRUE, value |-> new]

\* compareAndSwapBool(atom, expected, new): whether the swap happened, and
\* the value of the atom afterwards.
compareAndSwapBool(current, expected, new) ==
    [swapped |-> current = expected,
     value |-> IF current = expected THEN new ELSE current]

\* ---- attempt_notification: the compare-and-swap of notifying.
attempt_notification(t) ==
    LET cas == compareAndSwapBool(notifying, FALSE, TRUE)
    IN  /\ goto(t, "notify", IF cas.swapped THEN "invoke" ELSE "idle",
                lock_arg[t])
        /\ notifying' = cas.value
        /\ UNCHANGED <<journal_counters, journal_decrement_counts,
                       logical_counters, physical_counters,
                       logical_zone_counts, physical_zone_counts,
                       completionQueued, ownerVars>>

\* ---- attempt_notification: reset_completion and invoke_callback, which
\* ---- enqueues the completion on the journal thread.
invoke_callback(t) ==
    /\ goto(t, "invoke", "idle", lock_arg[t])
    /\ completionQueued' = completionQueued + 1
    /\ callbacksSinceAck' = callbacksSinceAck + 1
    /\ UNCHANGED <<journal_counters, journal_decrement_counts,
                   logical_counters, physical_counters, logical_zone_counts,
                   physical_zone_counts, notifying, inUse, reapedLogical,
                   observedUnderflow, assertLog, readOnly>>

\* ---- release_journal_zone_reference, on the journal thread:
\* ---- release_reference and is_journal_zone_locked.
release_journal_zone_reference(lock_number) ==
    LET t == JournalThread
        current_value == get_counter(lock_number, ZONE_TYPE_JOURNAL, 0)
        new_value == release_reference_value(current_value)
        decrements == journal_decrement_counts[lock_number]
    IN  /\ entry_holds_journal_reference(lock_number)
        /\ goto(t, "idle",
                IF journal_zone_locked(new_value, decrements)
                    THEN "idle" ELSE "notify",
                lock_number)
        /\ assertLog' = is_journal_zone_locked_log(
               release_reference_log(
                   assert_on_journal_thread(assertLog, t,
                       "release_journal_zone_reference"),
                   current_value),
               new_value, decrements)
        /\ observedUnderflow' =
               IF decrements > new_value
                   THEN observedUnderflow \cup {lock_number}
                   ELSE observedUnderflow
        /\ store_counter(lock_number, ZONE_TYPE_JOURNAL, 0, new_value)
        /\ UNCHANGED <<journal_decrement_counts, logical_zone_counts,
                       physical_zone_counts, notifying, completionQueued,
                       inUse, reapedLogical, callbacksSinceAck, readOnly>>

\* (mutant) the release from another zone is counted twice.
release_journal_zone_reference_from_other_zone_twice(lock_number) ==
    /\ journal_decrement_counts' =
           [journal_decrement_counts EXCEPT
               ![lock_number] = atomicAdd32(@, 2)]

\* ---- release_journal_zone_reference_from_other_zone
release_journal_zone_reference_from_other_zone(lock_number) ==
    /\ journal_decrement_counts' =
           [journal_decrement_counts EXCEPT
               ![lock_number] = atomicAdd32(@, 1)]

\* What a call of release_journal_zone_reference_from_other_zone leaves alone.
from_other_zone_unchanged ==
    UNCHANGED <<journal_counters, logical_counters, physical_counters,
                logical_zone_counts, physical_zone_counts, notifying,
                completionQueued, threadVars, laterVars, ownerVars, writeVars>>

\* A zone that holds the lock gives up an entry's journal-zone reference.
ReleaseJournalFromOtherZone(t, lock_number) ==
    /\ pc[t] = "idle"
    /\ may_release_journal_from_other_zone(t, lock_number)
    /\ release_journal_zone_reference_from_other_zone(lock_number)
    /\ from_other_zone_unchanged

\* (mutant) the flag is stored as true.
acknowledge_unlock_stores_true ==
    /\ notifying' = TRUE
    /\ callbacksSinceAck' = 0

\* ---- acknowledge_unlock
acknowledge_unlock ==
    /\ notifying' = FALSE
    /\ callbacksSinceAck' = 0

\* ---- the owner's callback, run from the journal thread's queue: it
\* ---- acknowledges the notification before it looks at the locks.
OwnerCallback ==
    LET t == JournalThread
    IN  /\ completionQueued > 0
        /\ goto(t, "idle", "reap_logical", lock_arg[t])
        /\ completionQueued' = completionQueued - 1
        /\ acknowledge_unlock
        /\ UNCHANGED <<journal_counters, journal_decrement_counts,
                       logical_counters, physical_counters,
                       logical_zone_counts, physical_zone_counts, inUse,
                       reapedLogical, observedUnderflow, assertLog, readOnly>>

\* The locks in use whose underflow a call of is_journal_zone_locked sees.
underflowed == {b \in inUse :
                   journal_decrement_counts[b] > journal_counters[b]}

\* The log after is_locked has been called for every lock in use.
RECURSIVE reap_log(_, _, _)
reap_log(log, locks, zone_type) ==
    IF locks = {} THEN log
    ELSE LET b == CHOOSE x \in locks : TRUE
         IN  reap_log(is_locked_log(log, b, zone_type), locks \ {b}, zone_type)

\* ---- the owner's reap of the block map head: is_locked(b, LOGICAL).
ReapLogical ==
    LET t == JournalThread
    IN  /\ goto(t, "reap_logical", "reap_physical", lock_arg[t])
        /\ reapedLogical' =
               {b \in inUse : ~is_locked(b, ZONE_TYPE_LOGICAL)}
        /\ observedUnderflow' = observedUnderflow \cup underflowed
        /\ assertLog' = reap_log(assertLog, inUse, ZONE_TYPE_LOGICAL)
        /\ UNCHANGED <<lockVars, inUse, callbacksSinceAck, readOnly>>

\* ---- the owner's reap of the slab journal head: is_locked(b, PHYSICAL); a
\* ---- block both heads have passed is reclaimed.
ReapPhysical ==
    LET t == JournalThread
        reclaimed == {b \in reapedLogical : ~is_locked(b, ZONE_TYPE_PHYSICAL)}
    IN  /\ goto(t, "reap_physical", "idle", lock_arg[t])
        /\ inUse' = inUse \ reclaimed
        /\ reapedLogical' = {}
        /\ observedUnderflow' = observedUnderflow \cup underflowed
        /\ assertLog' = reap_log(assertLog, inUse, ZONE_TYPE_PHYSICAL)
        /\ UNCHANGED <<lockVars, callbacksSinceAck, readOnly>>

\* ------------------------------------------------------------- the write path: construction
\* A data VIO in the pool.
free_data_vio ==
    [stage |-> "free", lbn |-> 0, data |-> 0, mapped |-> ZERO_BLOCK,
     newMapped |-> ZERO_BLOCK, allocation |-> ZERO_BLOCK, recovery_seq |-> 0,
     ticket |-> 0, result |-> VDO_SUCCESS]

\* No hash lock.
no_hash_lock ==
    [agent |-> 0, holders |-> {}, pbn |-> ZERO_BLOCK, verifications |-> 0,
     queried |-> FALSE, updated |-> FALSE]

\* ---- get_slab(depot, pbn): slabNumber = (pbn - origin) / slabBlocks; NULL
\* ---- for the zero block and for a block out of range.
get_slab(pbn) ==
    IF pbn = ZERO_BLOCK \/ pbn \notin Pbns THEN NULL
    ELSE (pbn - 1) \div SlabBlocks

\* The data blocks of a slab.
slab_pbns(slab) == {pbn \in Pbns : get_slab(pbn) = slab}

\* A slab journal with nothing in it.
blank_slab_journal ==
    [tail |-> 1, entries |-> <<>>, recovery_lock |-> 0,
     locks |-> [i \in 0 .. (SlabJournalSize - 1) |-> 0], committed_for |-> {}]

\* The device as loaded.  It is new (nothing is mapped), or the first
\* logical block maps to a block of the last slab; after a recovery that slab
\* still requires scrubbing.
load_vdo(mapped, recovered) ==
    LET slab == SlabCount - 1
        pbn == IF mapped THEN (slab * SlabBlocks) + 1 ELSE NULL
    IN  /\ data_vios = [v \in Vios |-> free_data_vio]
        /\ logical_locks = [lbn \in Lbns |-> <<>>]
        /\ hash_locks = [data \in 1 .. Fingerprints |-> no_hash_lock]
        /\ dedupe_index = [data \in 1 .. Fingerprints |->
               IF mapped /\ data = 1 THEN pbn ELSE ZERO_BLOCK]
        /\ block_map = [lbn \in Lbns |->
               IF mapped /\ lbn = 1 THEN pbn ELSE ZERO_BLOCK]
        /\ dirty_pages = [z \in 0 .. (LogicalZones - 1) |-> 0]
        /\ reference_counts = [p \in Pbns |->
               IF p = pbn THEN 1 ELSE EMPTY_REFERENCE_COUNT]
        /\ free_blocks = [k \in Slabs |->
               IF mapped /\ k = slab THEN SlabBlocks - 1 ELSE SlabBlocks]
        /\ block_contents = [p \in Pbns |->
               IF p = pbn THEN 1 ELSE 0]
        /\ slab_status = [k \in Slabs |->
               IF recovered /\ k = slab THEN SLAB_REQUIRES_SCRUBBING
               ELSE SLAB_REBUILT]
        /\ slab_journals = [k \in Slabs |-> blank_slab_journal]
        /\ journaled_counts = [p \in Pbns |->
               IF p = pbn THEN 1 ELSE 0]
        /\ recovery_journal =
               [tail |-> 0, open |-> FALSE, entry_count |-> 0, committed |-> 0,
                block_map_head |-> 1, slab_journal_head |-> 1]
        /\ submissions =
               [count |-> 0,
                last |-> [lbn \in Lbns |-> [ticket |-> 0, data |-> 0]],
                committed |-> [lbn \in Lbns |-> 0]]

\* ------------------------------------------------------------- the system
Init ==
    /\ make_lock_counter
    /\ load_vdo(FALSE, FALSE)
    /\ InitLater
    /\ pc = [t \in Threads |-> "idle"]
    /\ lock_arg = [t \in Threads |-> 0]
    /\ inUse = {}
    /\ reapedLogical = {}
    /\ callbacksSinceAck = 0
    /\ observedUnderflow = {}
    /\ assertLog = {}
    /\ readOnly = FALSE

JournalStep ==
    \/ \E b \in LockNumbers, v \in 1 .. MaxValue : initialize_lock_count(b, v)
    \/ initialize_lock_count_store
    \/ \E b \in LockNumbers : release_journal_zone_reference(b)
    \/ OwnerCallback
    \/ ReapLogical
    \/ ReapPhysical

ZoneStep(t) ==
    \/ \E b \in LockNumbers : acquire_lock_count_reference(t, b)
    \/ acquire_lock_count_reference_store(t)
    \/ \E b \in LockNumbers : release_lock_count_reference(t, b)
    \/ release_lock_count_reference_add(t)
    \/ \E b \in LockNumbers : ReleaseJournalFromOtherZone(t, b)

NotifyStep(t) ==
    \/ attempt_notification(t)
    \/ invoke_callback(t)

Next ==
    \/ JournalStep
    \/ \E t \in ZoneThreads : ZoneStep(t)
    \/ \E t \in Threads : NotifyStep(t)

Spec == Init /\ [][Next]_vars

\* ---- the scheduling: a thread in the middle of a call finishes it (no call
\* ---- of the lock counter blocks), and the journal thread runs the
\* ---- completions on its queue.
Finish(t) ==
    \/ /\ t \in ZoneThreads
       /\ \/ acquire_lock_count_reference_store(t)
          \/ release_lock_count_reference_add(t)
    \/ /\ t = JournalThread
       /\ \/ initialize_lock_count_store
          \/ OwnerCallback
          \/ ReapLogical
          \/ ReapPhysical
    \/ NotifyStep(t)

LiveSpec == Spec /\ \A t \in Threads : WF_vars(Finish(t))

\* ---- a caller outside the discipline: a journal-zone reference released
\* ---- from another zone that no entry holds.
StrayReleaseFromOtherZone(t, lock_number) ==
    /\ pc[t] = "idle"
    /\ journal_decrement_counts[lock_number] < MaxDecrements
    /\ release_journal_zone_reference_from_other_zone(lock_number)
    /\ from_other_zone_unchanged

\* ---- a release from another zone that arrives while the journal thread is
\* ---- between the two stores of initialize_lock_count for the lock.
RacingReleaseFromOtherZone(t, lock_number) ==
    /\ pc[JournalThread] = "init_store"
    /\ lock_arg[JournalThread] = lock_number
    /\ StrayReleaseFromOtherZone(t, lock_number)

NextInitialize ==
    \/ Next
    \/ \E t \in ZoneThreads, b \in LockNumbers :
           RacingReleaseFromOtherZone(t, b)

SpecInitialize == Init /\ [][NextInitialize]_vars

NextUnderflow ==
    \/ Next
    \/ \E t \in ZoneThreads, b \in LockNumbers : StrayReleaseFromOtherZone(t, b)

SpecUnderflow == Init /\ [][NextUnderflow]_vars

\* ------------------------------------------------------------- the write path: operations
\* ---- is_zero_block(data_kvio): every word of the data block is zero.
is_zero_block(data) == data = 0

\* ---- hasAllocation(data_vio)
hasAllocation(data_vio) == data_vio.allocation # ZERO_BLOCK

\* ---- is_unrecovered_slab(slab)
is_unrecovered_slab(slab) == slab_status[slab] # SLAB_REBUILT

\* ---- is_increment_operation(operation.type)
is_increment_operation(type) == type = DATA_INCREMENT

\* The logical zone of a logical block and the physical zone of a slab.
logical_zone_of(lbn) == lbn % LogicalZones
physical_zone_of(slab) == slab % PhysicalZones

\* The lock of the lock counter for a recovery journal block.
lock_number_of(sequence_number) == sequence_number % Locks

\* A PBN lock is held on a block that a hash lock has settled on or that a
\* data VIO holds as its allocation.
pbn_is_locked(pbn) ==
    \/ \E data \in 1 .. Fingerprints :
           /\ hash_locks[data].holders # {}
           /\ hash_locks[data].pbn = pbn
    \/ \E v \in Vios : data_vios[v].allocation = pbn

\* ---- adjust_reference_count(ref_counts, operation, ...): the new count,
\* ---- whether the block became free or stopped being free, and the result.
adjust_reference_count(count, type, locked) ==
    IF is_increment_operation(type)
    THEN IF count = EMPTY_REFERENCE_COUNT
            THEN [value |-> 1, free_status_changed |-> TRUE,
                  result |-> VDO_SUCCESS]
         ELSE IF count = PROVISIONAL_REFERENCE_COUNT
            THEN [value |-> 1, free_status_changed |-> FALSE,
                  result |-> VDO_SUCCESS]
         ELSE IF count >= MAXIMUM_REFERENCE_COUNT
            THEN [value |-> MAXIMUM_REFERENCE_COUNT,
                  free_status_changed |-> FALSE, result |-> VDO_SUCCESS]
         ELSE [value |-> count + 1, free_status_changed |-> FALSE,
               result |-> VDO_SUCCESS]
    ELSE IF count = EMPTY_REFERENCE_COUNT
            THEN [value |-> count, free_status_changed |-> FALSE,
                  result |-> VDO_REF_COUNT_INVALID]
         ELSE IF count = PROVISIONAL_REFERENCE_COUNT \/ count = 1
            THEN IF locked /\ count = 1
                    THEN [value |-> PROVISIONAL_REFERENCE_COUNT,
                          free_status_changed |-> FALSE,
                          result |-> VDO_SUCCESS]
                    ELSE [value |-> EMPTY_REFERENCE_COUNT,
                          free_status_changed |-> TRUE,
                          result |-> VDO_SUCCESS]
         ELSE [value |-> count - 1, free_status_changed |-> FALSE,
               result |-> VDO_SUCCESS]

\* ---- adjust_vdo_free_block_count(slab, increment)
adjust_vdo_free_block_count(free, slab, increment) ==
    [free EXCEPT ![slab] = IF increment THEN @ + 1 ELSE @ - 1]

\* ---- adjust_slab_journal_block_reference(journal, sequence_number,
\* ---- adjustment): the per-entry locks of a block of the slab journal.
adjust_slab_journal_block_reference(journals, slab, sequence_number, adjustment) ==
    IF sequence_number = 0 THEN journals
    ELSE [journals EXCEPT
             ![slab].locks[sequence_number % SlabJournalSize] = @ + adjustment]

\* (mutant) the reference count of a rebuilt slab is left as it was.
modify_slab_reference_count_preserving(slab, journal_point, operation, refs, free, journals) ==
    [result |-> VDO_SUCCESS, reference_counts |-> refs,
     free_blocks |-> free, slab_journals |-> journals]

\* (mutant) the entry lock is released twice.
modify_slab_reference_count_releasing_twice(slab, journal_point, operation, refs, free, journals) ==
    [result |-> VDO_SUCCESS, reference_counts |-> refs, free_blocks |-> free,
     slab_journals |->
         IF slab = NULL THEN journals
         ELSE adjust_slab_journal_block_reference(
                  journals, slab, journal_point.sequence_number, -2)]

\* ---- modify_slab_reference_count(slab, journal_point, operation): the
\* ---- result, and the reference counts, free block counts and slab
\* ---- journals it leaves.
modify_slab_reference_count(slab, journal_point, operation, refs, free, journals) ==
    IF slab = NULL
    THEN [result |-> VDO_SUCCESS, reference_counts |-> refs,
          free_blocks |-> free, slab_journals |-> journals]
    ELSE IF is_unrecovered_slab(slab)
    THEN LET entry_lock == journal_point.sequence_number
         IN  [result |-> VDO_SUCCESS, reference_counts |-> refs,
              free_blocks |-> free,
              slab_journals |->
                  adjust_slab_journal_block_reference(journals, slab,
                                                      entry_lock, -1)]
    ELSE LET adjusted == adjust_reference_count(
                 refs[operation.pbn], operation.type,
                 pbn_is_locked(operation.pbn))
         IN  IF adjusted.result # VDO_SUCCESS
             THEN [result |-> adjusted.result, reference_counts |-> refs,
                   free_blocks |-> free, slab_journals |-> journals]
             ELSE [result |-> VDO_SUCCESS,
                   reference_counts |->
                       [refs EXCEPT ![operation.pbn] = adjusted.value],
                   free_blocks |->
                       IF adjusted.free_status_changed
                       THEN adjust_vdo_free_block_count(free, slab,
                                ~is_increment_operation(operation.type))
                       ELSE free,
                   slab_journals |-> journals]

\* ---- the allocator: the block it hands out, or ZERO_BLOCK when no rebuilt
\* ---- slab has a free block.
allocate_block ==
    LET free == {pbn \in Pbns :
                    /\ reference_counts[pbn] = EMPTY_REFERENCE_COUNT
                    /\ ~is_unrecovered_slab(get_slab(pbn))
                    /\ ~pbn_is_locked(pbn)}
    IN  IF free = {} THEN ZERO_BLOCK
        ELSE CHOOSE pbn \in free : \A other \in free : pbn <= other

\* The provisional claim of a block for a PBN lock: a free block becomes
\* provisionally referenced and the lock has the reference; a block that has
\* a reference already is left as it is, and the claim either says so
\* (EXISTS) or succeeds without giving the lock a reference.
provisionally_reference_block(refs, pbn, reports_existing) ==
    IF refs[pbn] = EMPTY_REFERENCE_COUNT
    THEN [result |-> VDO_SUCCESS,
          reference_counts |->
              [refs EXCEPT ![pbn] = PROVISIONAL_REFERENCE_COUNT],
          has_provisional_reference |-> TRUE]
    ELSE [result |-> IF reports_existing THEN EXISTS ELSE VDO_SUCCESS,
          reference_counts |-> refs,
          has_provisional_reference |-> FALSE]

\* (mutant) the free block count goes down on every successful claim.
acquire_provisional_reference_counting_every_claim(slab, pbn, has_provisional_reference, reports_existing) ==
    IF has_provisional_reference
    THEN [result |-> VDO_SUCCESS, reference_counts |-> reference_counts,
          free_blocks |-> free_blocks, has_provisional_reference |-> TRUE]
    ELSE LET referenced == provisionally_reference_block(
                               reference_counts, pbn, reports_existing)
         IN  IF referenced.result # VDO_SUCCESS
             THEN [result |-> referenced.result,
                   reference_counts |-> referenced.reference_counts,
                   free_blocks |-> free_blocks,
                   has_provisional_reference |->
                       referenced.has_provisional_reference]
             ELSE [result |-> VDO_SUCCESS,
                   reference_counts |-> referenced.reference_counts,
                   free_blocks |->
                       adjust_vdo_free_block_count(free_blocks, slab, FALSE),
                   has_provisional_reference |->
                       referenced.has_provisional_reference]

\* ---- acquire_provisional_reference(slab, pbn, lock): the result, the
\* ---- reference counts and free block counts it leaves, and whether the
\* ---- lock has a provisional reference afterwards.
acquire_provisional_reference(slab, pbn, has_provisional_reference, reports_existing) ==
    IF has_provisional_reference
    THEN [result |-> VDO_SUCCESS, reference_counts |-> reference_counts,
          free_blocks |-> free_blocks, has_provisional_reference |-> TRUE]
    ELSE LET referenced == provisionally_reference_block(
                               reference_counts, pbn, reports_existing)
         IN  IF referenced.result # VDO_SUCCESS
             THEN [result |-> referenced.result,
                   reference_counts |-> referenced.reference_counts,
                   free_blocks |-> free_blocks,
                   has_provisional_reference |->
                       referenced.has_provisional_reference]
             ELSE [result |-> VDO_SUCCESS,
                   reference_counts |-> referenced.reference_counts,
                   free_blocks |->
                       IF referenced.has_provisional_reference
                       THEN adjust_vdo_free_block_count(
                                free_blocks, slab, FALSE)
                       ELSE free_blocks,
                   has_provisional_reference |->
                       referenced.has_provisional_reference]

\* The provisional reference of a block is given back.
release_provisional_reference(refs, free, pbn) ==
    IF pbn # ZERO_BLOCK /\ refs[pbn] = PROVISIONAL_REFERENCE_COUNT
    THEN [reference_counts |-> [refs EXCEPT ![pbn] = EMPTY_REFERENCE_COUNT],
          free_blocks |-> adjust_vdo_free_block_count(free, get_slab(pbn), TRUE)]
    ELSE [reference_counts |-> refs, free_blocks |-> free]

\* (mutant) advice is posted whether or not the data VIO has an allocation.
checkForDuplication_posting_always(data_vio, index) ==
    [advice |-> index[data_vio.data],
     index |-> IF index[data_vio.data] = ZERO_BLOCK
               THEN [index EXCEPT ![data_vio.data] = data_vio.allocation]
               ELSE index,
     posted |-> TRUE]

\* ---- checkForDuplication(data_vio): post_dedupe_advice for a data VIO with
\* ---- an allocation, query_dedupe_advice for one without; the advice that
\* ---- comes back and the index afterwards.
checkForDuplication(data_vio, index) ==
    IF hasAllocation(data_vio)
    THEN [advice |-> index[data_vio.data],
          index |-> IF index[data_vio.data] = ZERO_BLOCK
                    THEN [index EXCEPT ![data_vio.data] = data_vio.allocation]
                    ELSE index,
          posted |-> TRUE]
    ELSE [advice |-> index[data_vio.data], index |-> index, posted |-> FALSE]

\* ---- updateDedupeIndex(data_vio): update_dedupe_advice.
updateDedupeIndex(data_vio, index) ==
    [index EXCEPT ![data_vio.data] = data_vio.newMapped]

\* What a step of the write path that leaves the lock counter alone leaves
\* alone.
lock_counter_unchanged == UNCHANGED <<lockVars, threadVars, laterVars, ownerVars>>

\* ------------------------------------------------------------- the write path: steps
\* (mutant) a logical lock is granted whether or not it is held.
is_lock_free_always(queue) == TRUE

\* A logical lock that no data VIO holds.
is_lock_free(queue) == queue = <<>>

\* ---- kvdo_launch_data_kvio_from_bio, then the logical zone's attempt at the
\* ---- logical lock: the data VIO holds the lock of a free block and waits,
\* ---- behind the earlier waiters, for a held one.  The pool hands out its
\* ---- first free data VIO.
LaunchWrite(v, lbn, data) ==
    LET ticket == submissions.count + 1
    IN  /\ data_vios[v].stage = "free"
        /\ \A w \in Vios : data_vios[w].stage = "free" => v <= w
        /\ submissions.count < MaxWrites
        /\ ~readOnly
        /\ data_vios' = [data_vios EXCEPT ![v] =
               [free_data_vio EXCEPT
                   !.stage = IF is_lock_free(logical_locks[lbn])
                             THEN "locked" ELSE "waiting",
                   !.lbn = lbn, !.data = data, !.ticket = ticket]]
        /\ logical_locks' = [logical_locks EXCEPT ![lbn] = Append(@, v)]
        /\ submissions' = [submissions EXCEPT
               !.count = ticket,
               !.last[lbn] = [ticket |-> ticket, data |-> data]]
        /\ UNCHANGED <<hash_locks, dedupe_index, block_map, dirty_pages,
                       reference_counts, free_blocks, block_contents,
                       slab_status, slab_journals, journaled_counts,
                       recovery_journal>>
        /\ lock_counter_unchanged

\* (mutant) every data VIO takes the hash lock over as its agent.
join_hash_lock_as_agent(lock, v) ==
    [no_hash_lock EXCEPT !.agent = v, !.holders = lock.holders \cup {v}]

\* The hash lock of a fingerprint with data VIO v added: v is the agent of a
\* lock it creates and a waiter of a lock it finds.
join_hash_lock(lock, v) ==
    IF lock.holders = {}
    THEN [no_hash_lock EXCEPT !.agent = v, !.holders = {v}]
    ELSE [lock EXCEPT !.holders = @ \cup {v}]

\* ---- the holder of the logical lock reads the mapping of its block; a
\* ---- write of zeros (or a discard) goes straight to the journal; any other
\* ---- write allocates a block (if there is one) and writes its data there,
\* ---- is hashed, and joins the hash lock of its fingerprint.
PrepareForDedupe(v) ==
    LET data_vio == data_vios[v]
        pbn == allocate_block
        provisional ==
            IF pbn = ZERO_BLOCK
            THEN [reference_counts |-> reference_counts,
                  free_blocks |-> free_blocks]
            ELSE acquire_provisional_reference(get_slab(pbn), pbn, FALSE, FALSE)
        lock == join_hash_lock(hash_locks[data_vio.data], v)
    IN  /\ data_vio.stage = "locked"
        /\ IF is_zero_block(data_vio.data)
           THEN /\ data_vios' = [data_vios EXCEPT ![v] =
                       [data_vio EXCEPT !.stage = "journaling",
                                        !.mapped = block_map[data_vio.lbn],
                                        !.newMapped = ZERO_BLOCK]]
                /\ UNCHANGED <<hash_locks, reference_counts, free_blocks,
                               block_contents>>
           ELSE /\ data_vios' = [data_vios EXCEPT ![v] =
                       [data_vio EXCEPT
                           !.stage = IF lock.agent = v
                                     THEN "agent" ELSE "hash_waiting",
                           !.mapped = block_map[data_vio.lbn],
                           !.allocation = pbn]]
                /\ hash_locks' = [hash_locks EXCEPT ![data_vio.data] = lock]
                /\ reference_counts' = provisional.reference_counts
                /\ free_blocks' = provisional.free_blocks
                /\ block_contents' =
                       IF pbn = ZERO_BLOCK THEN block_contents
                       ELSE [block_contents EXCEPT ![pbn] = data_vio.data]
        /\ UNCHANGED <<logical_locks, dedupe_index, block_map, dirty_pages,
                       slab_status, slab_journals, journaled_counts,
                       recovery_journal, submissions>>
        /\ lock_counter_unchanged

\* The verification read of a candidate: the block holds the same data and
\* can take another reference.
verifies(candidate, data) ==
    /\ block_contents[candidate] = data
    /\ reference_counts[candidate] \in 1 .. (MAXIMUM_REFERENCE_COUNT - 1)

\* ---- the agent of a hash lock: checkForDuplication, then the verification
\* ---- of the advice.  On a match the agent gives its allocation back and the
\* ---- lock settles on the candidate; otherwise the lock settles on the
\* ---- agent's allocation and the index is updated; an agent with neither
\* ---- fails with VDO_NO_SPACE and leaves the lock to its first waiter.
AgentResolve(v) ==
    LET data_vio == data_vios[v]
        data == data_vio.data
        lock == hash_locks[data]
        checked == IF lock.queried
                   THEN [advice |-> ZERO_BLOCK, index |-> dedupe_index,
                         posted |-> FALSE]
                   ELSE checkForDuplication(data_vio, dedupe_index)
        candidate == checked.advice
        reads == candidate # ZERO_BLOCK /\ candidate # data_vio.allocation
        duplicate == reads /\ verifies(candidate, data)
        released == release_provisional_reference(
                        reference_counts, free_blocks, data_vio.allocation)
        successor == IF lock.holders \ {v} = {} THEN 0
                     ELSE CHOOSE w \in lock.holders \ {v} :
                              \A x \in lock.holders \ {v} :
                                  data_vios[w].ticket <= data_vios[x].ticket
        counted == [lock EXCEPT
                       !.queried = TRUE,
                       !.verifications = IF reads THEN @ + 1 ELSE @]
    IN  /\ data_vio.stage = "agent"
        /\ lock.agent = v
        /\ IF duplicate
           THEN /\ data_vios' = [data_vios EXCEPT ![v] =
                       [data_vio EXCEPT !.stage = "journaling",
                                        !.newMapped = candidate,
                                        !.allocation = ZERO_BLOCK]]
                /\ hash_locks' = [hash_locks EXCEPT ![data] =
                       [counted EXCEPT !.pbn = candidate]]
                /\ reference_counts' = released.reference_counts
                /\ free_blocks' = released.free_blocks
                /\ dedupe_index' = checked.index
           ELSE IF hasAllocation(data_vio)
           THEN /\ data_vios' = [data_vios EXCEPT ![v] =
                       [data_vio EXCEPT !.stage = "journaling",
                                        !.newMapped = data_vio.allocation]]
                /\ hash_locks' = [hash_locks EXCEPT ![data] =
                       [counted EXCEPT !.pbn = data_vio.allocation]]
                /\ dedupe_index' = updateDedupeIndex(
                       [data_vio EXCEPT !.newMapped = data_vio.allocation],
                       checked.index)
                /\ UNCHANGED <<reference_counts, free_blocks>>
           ELSE /\ data_vios' = [w \in Vios |->
                       IF w = v
                       THEN [data_vio EXCEPT !.stage = "mapped",
                                             !.result = VDO_NO_SPACE]
                       ELSE IF w = successor
                       THEN [data_vios[w] EXCEPT !.stage = "agent"]
                       ELSE data_vios[w]]
                /\ hash_locks' = [hash_locks EXCEPT ![data] =
                       IF successor = 0 THEN no_hash_lock
                       ELSE [counted EXCEPT !.agent = successor,
                                            !.holders = @ \ {v}]]
                /\ dedupe_index' = checked.index
                /\ UNCHANGED <<reference_counts, free_blocks>>
        /\ UNCHANGED <<logical_locks, block_map, dirty_pages, block_contents,
                       slab_status, slab_journals, journaled_counts,
                       recovery_journal, submissions>>
        /\ lock_counter_unchanged

\* ---- a waiter of a hash lock whose agent has committed its reference: the
\* ---- waiter gives its own allocation back and links to the block the lock
\* ---- has settled on.
WaiterDedupe(v) ==
    LET data_vio == data_vios[v]
        lock == hash_locks[data_vio.data]
        released == release_provisional_reference(
                        reference_counts, free_blocks, data_vio.allocation)
    IN  /\ data_vio.stage = "hash_waiting"
        /\ lock.updated
        /\ data_vios' = [data_vios EXCEPT ![v] =
               [data_vio EXCEPT !.stage = "journaling",
                                !.newMapped = lock.pbn,
                                !.allocation = ZERO_BLOCK]]
        /\ reference_counts' = released.reference_counts
        /\ free_blocks' = released.free_blocks
        /\ UNCHANGED <<logical_locks, hash_locks, dedupe_index, block_map,
                       dirty_pages, block_contents, slab_status,
                       slab_journals, journaled_counts, recovery_journal,
                       submissions>>
        /\ lock_counter_unchanged

\* ---- the lock counter as the write path calls it: a whole call at once.
\* attempt_notification, where a call reaches it: the compare-and-swap of
\* notifying and, when it swaps, invoke_callback.
notify_owner(attempted) ==
    LET cas == compareAndSwapBool(notifying, FALSE, TRUE)
        invoked == attempted /\ cas.swapped
    IN  /\ notifying' = IF attempted THEN cas.value ELSE notifying
        /\ completionQueued' = completionQueued + (IF invoked THEN 1 ELSE 0)
        /\ callbacksSinceAck' = callbacksSinceAck + (IF invoked THEN 1 ELSE 0)

\* What a step leaves alone that makes no call to take or give up a
\* reference.
no_reference_call ==
    UNCHANGED <<journal_counters, logical_counters, physical_counters,
                logical_zone_counts, physical_zone_counts, notifying,
                completionQueued, callbacksSinceAck, assertLog>>

\* acquire_lock_count_reference, from its assertions to the store.
acquire_reference(lock_number, zone_type, zone_id) ==
    LET current_value == get_counter(lock_number, zone_type, zone_id)
    IN  /\ assertLog' = ASSERT_LOG_ONLY(
               ASSERT_LOG_ONLY(assertLog, zone_type # ZONE_TYPE_JOURNAL,
                   "invalid lock count increment from journal zone"),
               current_value < UINT16_MAX,
               "increment of lock counter must not overflow")
        /\ store_counter(lock_number, zone_type, zone_id,
                         (current_value + 1) % UINT16_MOD)
        /\ IF first_acquire(current_value)
               THEN add_zone_count(lock_number, zone_type, 1)
               ELSE UNCHANGED <<logical_zone_counts, physical_zone_counts>>
        /\ notify_owner(FALSE)

\* release_lock_count_reference, from its assertion to the notification of
\* the owner by the last holder of a zone type.
release_reference(lock_number, zone_type, zone_id) ==
    LET current_value == get_counter(lock_number, zone_type, zone_id)
        new_value == release_reference_value(current_value)
        new_zone_count ==
            atomicAdd32(get_zone_count_ptr(lock_number, zone_type), -1)
    IN  /\ assertLog' = release_reference_log(
               ASSERT_LOG_ONLY(assertLog, zone_type # ZONE_TYPE_JOURNAL,
                   "invalid lock count decrement from journal zone"),
               current_value)
        /\ store_counter(lock_number, zone_type, zone_id, new_value)
        /\ IF release_is_last_of_zone(new_value)
               THEN add_zone_count(lock_number, zone_type, -1)
               ELSE UNCHANGED <<logical_zone_counts, physical_zone_counts>>
        /\ notify_owner(/\ release_is_last_of_zone(new_value)
                        /\ release_is_last_of_type(new_zone_count))

\* The log after count calls of release_journal_zone_reference on a lock
\* whose journal counter is current_value.
RECURSIVE release_journal_zone_log(_, _, _, _)
release_journal_zone_log(log, current_value, decrements, count) ==
    IF count = 0 THEN log
    ELSE release_journal_zone_log(
             is_journal_zone_locked_log(
                 release_reference_log(log, current_value),
                 release_reference_value(current_value), decrements),
             release_reference_value(current_value), decrements, count - 1)

\* release_journal_zone_reference, called count times by the journal thread:
\* a call that leaves the journal zone unlocked notifies the owner.
release_journal_zone_references(lock_number, count) ==
    LET current_value == get_counter(lock_number, ZONE_TYPE_JOURNAL, 0)
        decrements == journal_decrement_counts[lock_number]
    IN  /\ assertLog' = release_journal_zone_log(assertLog, current_value,
                                                 decrements, count)
        /\ store_counter(lock_number, ZONE_TYPE_JOURNAL, 0,
                         (current_value + UINT16_MOD - count) % UINT16_MOD)
        /\ notify_owner(\E k \in 1 .. count :
               ~journal_zone_locked(
                    (current_value + UINT16_MOD - k) % UINT16_MOD,
                    decrements))

\* A recovery journal block that both reap heads have passed is reclaimed.
reclaimed(sequence_number) ==
    /\ sequence_number < recovery_journal.block_map_head
    /\ sequence_number < recovery_journal.slab_journal_head

\* ---- the journal thread opens the next block of the recovery journal for
\* ---- a data VIO that needs a slot: the block of the ring it takes over has
\* ---- been reclaimed, and initialize_lock_count sets its journal count to
\* ---- the entries of a block.
OpenJournalBlock ==
    LET sequence_number == recovery_journal.tail + 1
        lock_number == lock_number_of(sequence_number)
    IN  /\ ~recovery_journal.open
        /\ \E v \in Vios : data_vios[v].stage = "journaling"
        /\ sequence_number <= Locks \/ reclaimed(sequence_number - Locks)
        /\ recovery_journal' = [recovery_journal EXCEPT
               !.tail = sequence_number, !.open = TRUE, !.entry_count = 0]
        /\ assertLog' = ASSERT_LOG_ONLY(assertLog,
               get_counter(lock_number, ZONE_TYPE_JOURNAL, 0)
                   = journal_decrement_counts[lock_number],
               "count to be initialized not in use")
        /\ store_counter(lock_number, ZONE_TYPE_JOURNAL, 0, EntriesPerBlock)
        /\ journal_decrement_counts' =
               [journal_decrement_counts EXCEPT ![lock_number] = 0]
        /\ UNCHANGED <<logical_zone_counts, physical_zone_counts, notifying,
                       completionQueued, threadVars, laterVars, inUse, reapedLogical,
                       callbacksSinceAck, observedUnderflow, readOnly>>
        /\ UNCHANGED <<data_vios, logical_locks, hash_locks, dedupe_index,
                       block_map, dirty_pages, reference_counts, free_blocks,
                       block_contents, slab_status, slab_journals,
                       journaled_counts, submissions>>

\* ---- a data VIO reserves a slot of the open block and emits its delta
\* ---- (LBN, mapped, newMapped) there.
MakeJournalEntry(v) ==
    LET data_vio == data_vios[v]
    IN  /\ data_vio.stage = "journaling"
        /\ recovery_journal.open
        /\ recovery_journal.entry_count < EntriesPerBlock
        /\ data_vios' = [data_vios EXCEPT ![v] =
               [data_vio EXCEPT !.stage = "journaled",
                                !.recovery_seq = recovery_journal.tail]]
        /\ recovery_journal' = [recovery_journal EXCEPT !.entry_count = @ + 1]
        /\ UNCHANGED <<logical_locks, hash_locks, dedupe_index, block_map,
                       dirty_pages, reference_counts, free_blocks,
                       block_contents, slab_status, slab_journals,
                       journaled_counts, submissions>>
        /\ lock_counter_unchanged

\* (mutant) a block counts as durable as soon as it is open.
is_durable_when_open(sequence_number) ==
    sequence_number <= recovery_journal.tail

\* The recovery journal block has been written.
is_durable(sequence_number) ==
    sequence_number <= recovery_journal.committed

\* ---- the write of the open block: its entries are durable, the block takes
\* ---- no more entries, and the journal thread releases the journal-zone
\* ---- references of the slots no entry took.
CommitJournalBlock ==
    LET lock_number == lock_number_of(recovery_journal.tail)
        unused == EntriesPerBlock - recovery_journal.entry_count
    IN  /\ recovery_journal.open
        /\ recovery_journal.entry_count >= 1
        /\ recovery_journal' = [recovery_journal EXCEPT
               !.open = FALSE, !.committed = recovery_journal.tail]
        /\ release_journal_zone_references(lock_number, unused)
        /\ UNCHANGED <<journal_decrement_counts, logical_zone_counts,
                       physical_zone_counts, threadVars, laterVars, inUse,
                       reapedLogical, observedUnderflow, readOnly>>
        /\ UNCHANGED <<data_vios, logical_locks, hash_locks, dedupe_index,
                       block_map, dirty_pages, reference_counts, free_blocks,
                       block_contents, slab_status, slab_journals,
                       journaled_counts, submissions>>

\* ---- a data VIO whose delta is durable commits a reference-count change
\* ---- through the slab journal of the block's slab: the entry is added to
\* ---- the tail block (the first entry of a tail block takes the slab
\* ---- journal's physical-zone lock on the recovery journal block of the
\* ---- delta), and modify_slab_reference_count applies it.  The increment
\* ---- for newMapped comes first, the decrement for mapped second.
UpdateReference(v, type) ==
    LET data_vio == data_vios[v]
        increment == is_increment_operation(type)
        pbn == IF increment THEN data_vio.newMapped ELSE data_vio.mapped
        slab == get_slab(pbn)
        journal == slab_journals[slab]
        first == journal.entries = <<>>
        entry == [pbn |-> pbn, type |-> type,
                  recovery_seq |-> data_vio.recovery_seq]
        added == [slab_journals EXCEPT ![slab] =
                     [journal EXCEPT
                         !.entries = Append(@, entry),
                         !.recovery_lock =
                             IF first THEN data_vio.recovery_seq ELSE @,
                         !.locks[journal.tail % SlabJournalSize] = @ + 1]]
        modified == modify_slab_reference_count(
                        slab, [sequence_number |-> journal.tail],
                        [type |-> type, pbn |-> pbn],
                        reference_counts, free_blocks,
                        IF slab = NULL THEN slab_journals ELSE added)
        data == data_vio.data
    IN  /\ data_vio.stage = (IF increment THEN "journaled" ELSE "incremented")
        /\ increment => is_durable(data_vio.recovery_seq)
        /\ slab # NULL => Len(journal.entries) < SlabJournalEntries
        /\ data_vios' = [data_vios EXCEPT ![v] =
               IF modified.result # VDO_SUCCESS
               THEN [data_vio EXCEPT !.stage = "mapped",
                                     !.result = modified.result]
               ELSE [data_vio EXCEPT
                        !.stage = IF increment THEN "incremented"
                                  ELSE "decremented",
                        !.allocation = IF increment THEN ZERO_BLOCK ELSE @]]
        /\ hash_locks' =
               IF increment /\ ~is_zero_block(data) /\ hash_locks[data].agent = v
               THEN [hash_locks EXCEPT ![data].updated = TRUE]
               ELSE hash_locks
        /\ reference_counts' = modified.reference_counts
        /\ free_blocks' = modified.free_blocks
        /\ slab_journals' = modified.slab_journals
        /\ journaled_counts' =
               IF slab = NULL THEN journaled_counts
               ELSE [journaled_counts EXCEPT
                        ![pbn] = IF increment THEN @ + 1 ELSE @ - 1]
        /\ readOnly' = (readOnly \/ modified.result # VDO_SUCCESS)
        /\ IF slab # NULL /\ first
           THEN acquire_reference(lock_number_of(data_vio.recovery_seq),
                                  ZONE_TYPE_PHYSICAL, physical_zone_of(slab))
           ELSE no_reference_call
        /\ UNCHANGED <<journal_decrement_counts, threadVars, laterVars, inUse,
                       reapedLogical, observedUnderflow>>
        /\ UNCHANGED <<logical_locks, dedupe_index, block_map, dirty_pages,
                       block_contents, slab_status, recovery_journal,
                       submissions>>

\* ---- the slab journal writes its tail block: the entries are durable, the
\* ---- lock on the recovery journal block is released, and the next block
\* ---- of the ring (which no reference block still locks) becomes the tail.
CommitSlabJournalTail(slab) ==
    LET journal == slab_journals[slab]
    IN  /\ journal.entries # <<>>
        /\ journal.locks[(journal.tail + 1) % SlabJournalSize] = 0
        /\ slab_journals' = [slab_journals EXCEPT ![slab] =
               [journal EXCEPT
                   !.tail = @ + 1,
                   !.entries = <<>>,
                   !.recovery_lock = 0,
                   !.committed_for = @ \cup
                       {journal.entries[i].recovery_seq :
                            i \in 1 .. Len(journal.entries)}]]
        /\ release_reference(lock_number_of(journal.recovery_lock),
                             ZONE_TYPE_PHYSICAL, physical_zone_of(slab))
        /\ UNCHANGED <<journal_decrement_counts, threadVars, laterVars, inUse,
                       reapedLogical, observedUnderflow, readOnly>>
        /\ UNCHANGED <<data_vios, logical_locks, hash_locks, dedupe_index,
                       block_map, dirty_pages, reference_counts, free_blocks,
                       block_contents, slab_status, journaled_counts,
                       recovery_journal, submissions>>

\* ---- the reference blocks of a rebuilt slab are written once the entries
\* ---- that dirtied them are durable; their locks on the blocks of the slab
\* ---- journal are released.
SaveReferenceBlocks(slab) ==
    LET journal == slab_journals[slab]
    IN  /\ ~is_unrecovered_slab(slab)
        /\ journal.entries = <<>>
        /\ \E i \in DOMAIN journal.locks : journal.locks[i] > 0
        /\ slab_journals' = [slab_journals EXCEPT
               ![slab].locks = [i \in DOMAIN journal.locks |-> 0]]
        /\ UNCHANGED <<data_vios, logical_locks, hash_locks, dedupe_index,
                       block_map, dirty_pages, reference_counts, free_blocks,
                       block_contents, slab_status, journaled_counts,
                       recovery_journal, submissions>>
        /\ lock_counter_unchanged

\* ---- the block map put on the logical zone of the block: the page is
\* ---- dirtied (a clean page takes the zone's lock on the recovery journal
\* ---- block of the delta) and the entry's journal-zone reference is given
\* ---- up from the logical zone.
BlockMapPut(v) ==
    LET data_vio == data_vios[v]
        zone == logical_zone_of(data_vio.lbn)
        lock_number == lock_number_of(data_vio.recovery_seq)
    IN  /\ data_vio.stage = "decremented"
        /\ data_vios' = [data_vios EXCEPT ![v].stage = "mapped"]
        /\ block_map' = [block_map EXCEPT ![data_vio.lbn] = data_vio.newMapped]
        /\ submissions' = [submissions EXCEPT
               !.committed[data_vio.lbn] = data_vio.ticket]
        /\ dirty_pages' = [dirty_pages EXCEPT
               ![zone] = IF @ = 0 THEN data_vio.recovery_seq ELSE @]
        /\ IF dirty_pages[zone] = 0
           THEN acquire_reference(lock_number, ZONE_TYPE_LOGICAL, zone)
           ELSE no_reference_call
        /\ release_journal_zone_reference_from_other_zone(lock_number)
        /\ UNCHANGED <<threadVars, laterVars, inUse, reapedLogical, observedUnderflow,
                       readOnly>>
        /\ UNCHANGED <<logical_locks, hash_locks, dedupe_index,
                       reference_counts, free_blocks, block_contents,
                       slab_status, slab_journals, journaled_counts,
                       recovery_journal>>

\* ---- the write of a dirty block map page releases its zone's lock.
WriteBlockMapPage(zone) ==
    /\ dirty_pages[zone] # 0
    /\ dirty_pages' = [dirty_pages EXCEPT ![zone] = 0]
    /\ release_reference(lock_number_of(dirty_pages[zone]),
                         ZONE_TYPE_LOGICAL, zone)
    /\ UNCHANGED <<journal_decrement_counts, threadVars, laterVars, inUse,
                   reapedLogical, observedUnderflow, readOnly>>
    /\ UNCHANGED <<data_vios, logical_locks, hash_locks, dedupe_index,
                   block_map, reference_counts, free_blocks, block_contents,
                   slab_status, slab_journals, journaled_counts,
                   recovery_journal, submissions>>

\* The hash lock after data VIO v has left it; a lock with no holder is gone.
leave_hash_lock(lock, v) ==
    IF lock.holders \ {v} = {} THEN no_hash_lock
    ELSE [lock EXCEPT !.holders = @ \ {v},
                      !.agent = IF @ = v THEN 0 ELSE @]

\* ---- the end of a write: the data VIO leaves its hash lock (the last one
\* ---- out gives back a provisional reference the lock still holds), hands
\* ---- the logical lock to its first waiter, and acknowledgeDataVIO
\* ---- acknowledges the bio.
AcknowledgeWrite(v) ==
    LET data_vio == data_vios[v]
        data == data_vio.data
        held == ~is_zero_block(data) /\ v \in hash_locks[data].holders
        last == held /\ hash_locks[data].holders = {v}
        released == release_provisional_reference(
                        reference_counts, free_blocks,
                        IF last THEN hash_locks[data].pbn ELSE ZERO_BLOCK)
        waiters == Tail(logical_locks[data_vio.lbn])
    IN  /\ data_vio.stage = "mapped"
        /\ data_vios' = [w \in Vios |->
               IF w = v THEN [data_vio EXCEPT !.stage = "acknowledged"]
               ELSE IF waiters # <<>> /\ w = Head(waiters)
               THEN [data_vios[w] EXCEPT !.stage = "locked"]
               ELSE data_vios[w]]
        /\ hash_locks' =
               IF held
               THEN [hash_locks EXCEPT ![data] = leave_hash_lock(@, v)]
               ELSE hash_locks
        /\ reference_counts' = released.reference_counts
        /\ free_blocks' = released.free_blocks
        /\ logical_locks' = [logical_locks EXCEPT ![data_vio.lbn] = waiters]
        /\ UNCHANGED <<dedupe_index, block_map, dirty_pages, block_contents,
                       slab_status, slab_journals, journaled_counts,
                       recovery_journal, submissions>>
        /\ lock_counter_unchanged

\* ---- kvdo_complete_data_kvio: the acknowledged data VIO returns to the pool.
ReturnDataVio(v) ==
    /\ data_vios[v].stage = "acknowledged"
    /\ data_vios' = [data_vios EXCEPT ![v] = free_data_vio]
    /\ UNCHANGED <<logical_locks, hash_locks, dedupe_index, block_map,
                   dirty_pages, reference_counts, free_blocks, block_contents,
                   slab_status, slab_journals, journaled_counts,
                   recovery_journal, submissions>>
    /\ lock_counter_unchanged

\* ---- the recovery journal reaps: a head moves past a written block that
\* ---- is_locked reports unlocked for the head's zone type.
ReapHead(zone_type) ==
    LET head == IF zone_type = ZONE_TYPE_LOGICAL
                THEN recovery_journal.block_map_head
                ELSE recovery_journal.slab_journal_head
        lock_number == lock_number_of(head)
    IN  /\ is_durable(head)
        /\ ~is_locked(lock_number, zone_type)
        /\ recovery_journal' =
               IF zone_type = ZONE_TYPE_LOGICAL
               THEN [recovery_journal EXCEPT !.block_map_head = head + 1]
               ELSE [recovery_journal EXCEPT !.slab_journal_head = head + 1]
        /\ assertLog' = is_locked_log(assertLog, lock_number, zone_type)
        /\ UNCHANGED <<lockVars, threadVars, laterVars, inUse, reapedLogical,
                       callbacksSinceAck, observedUnderflow, readOnly>>
        /\ UNCHANGED <<data_vios, logical_locks, hash_locks, dedupe_index,
                       block_map, dirty_pages, reference_counts, free_blocks,
                       block_contents, slab_status, slab_journals,
                       journaled_counts, submissions>>

\* ---- the recovery journal's callback for the notification of the lock
\* ---- counter, run from the journal thread's queue: acknowledge_unlock.
\* ---- The reap it goes on to is ReapHead.
ReapCallback ==
    /\ completionQueued > 0
    /\ completionQueued' = completionQueued - 1
    /\ acknowledge_unlock
    /\ UNCHANGED <<journal_counters, journal_decrement_counts,
                   logical_counters, physical_counters, logical_zone_counts,
                   physical_zone_counts, threadVars, laterVars, inUse, reapedLogical,
                   observedUnderflow, assertLog, readOnly, writeVars>>

\* ---- finish_scrubbing_slab(slab): slab->status = SLAB_REBUILT.
finish_scrubbing_slab(status, slab) == [status EXCEPT ![slab] = SLAB_REBUILT]

\* ---- the scrubber: the journal of a drained slab is replayed into its
\* ---- reference counts, and the slab is rebuilt.
ScrubSlab(slab) ==
    LET scrubbed == [pbn \in Pbns |->
                        IF get_slab(pbn) = slab
                        THEN journaled_counts[pbn]
                        ELSE reference_counts[pbn]]
    IN  /\ is_unrecovered_slab(slab)
        /\ slab_journals[slab].entries = <<>>
        /\ reference_counts' = scrubbed
        /\ free_blocks' = [free_blocks EXCEPT ![slab] =
               Cardinality({pbn \in slab_pbns(slab) :
                               scrubbed[pbn] = EMPTY_REFERENCE_COUNT})]
        /\ slab_status' = finish_scrubbing_slab(slab_status, slab)
        /\ UNCHANGED <<data_vios, logical_locks, hash_locks, dedupe_index,
                       block_map, dirty_pages, block_contents, slab_journals,
                       journaled_counts, recovery_journal, submissions>>
        /\ lock_counter_unchanged

\* ------------------------------------------------------------- the write path: the system
InitWrite ==
    /\ make_lock_counter
    /\ pc = [t \in Threads |-> "idle"]
    /\ lock_arg = [t \in Threads |-> 0]
    /\ inUse = {}
    /\ reapedLogical = {}
    /\ callbacksSinceAck = 0
    /\ observedUnderflow = {}
    /\ assertLog = {}
    /\ readOnly = FALSE
    /\ \E mapped, recovered \in BOOLEAN :
           (recovered => mapped) /\ load_vdo(mapped, recovered)
    /\ InitLater

DataVioStep(v) ==
    \/ \E lbn \in Lbns, data \in Contents : LaunchWrite(v, lbn, data)
    \/ PrepareForDedupe(v)
    \/ AgentResolve(v)
    \/ WaiterDedupe(v)
    \/ MakeJournalEntry(v)
    \/ UpdateReference(v, DATA_INCREMENT)
    \/ UpdateReference(v, DATA_DECREMENT)
    \/ BlockMapPut(v)
    \/ AcknowledgeWrite(v)
    \/ ReturnDataVio(v)

NextWrite ==
    \/ \E v \in Vios : DataVioStep(v)
    \/ OpenJournalBlock
    \/ CommitJournalBlock
    \/ \E slab \in Slabs : CommitSlabJournalTail(slab)
    \/ \E slab \in Slabs : SaveReferenceBlocks(slab)
    \/ \E zone \in 0 .. (LogicalZones - 1) : WriteBlockMapPage(zone)
    \/ ReapHead(ZONE_TYPE_LOGICAL)
    \/ ReapHead(ZONE_TYPE_PHYSICAL)
    \/ ReapCallback
    \/ \E slab \in Slabs : ScrubSlab(slab)

SpecWrite == InitWrite /\ [][NextWrite]_vars

\* ------------------------------------------------------------- the compression path: operations
\* ---- get_compression_state(data_vio): the atomic load of the packed state.
get_compression_state(v) == compression_state[v]

\* (mutant) the state is stored whether or not it is still the one loaded.
set_compression_state_unconditional(v, state) == TRUE

\* ---- set_compression_state(data_vio, state, new_state): whether the
\* ---- compare-and-swap of the packed state finds the state the caller loaded.
set_compression_state(v, state) == compression_state[v] = state

\* ---- advanceStatus: the state one pass of its loop tries to store.  A data
\* ---- VIO that is off the path stays there; one that may not compress skips
\* ---- to the end of the path; any other moves to the next status of the enum.
advance_status(state) ==
    IF state.status = VIO_POST_PACKER THEN state
    ELSE IF state.may_not_compress
         THEN [state EXCEPT !.status = VIO_POST_PACKER]
         ELSE [state EXCEPT !.status = @ + 1]

\* (mutant) a data VIO that may not compress is let into the compressor.
may_compress_value_ignoring_cancel(state) == state.status = VIO_PRE_COMPRESSOR

\* ---- may_compress_data_vio: its value for a data VIO found in state.
may_compress_value(state) ==
    advance_status(state).status = VIO_COMPRESSING

\* ---- may_pack_data_vio: its value for a data VIO found in state whose data
\* ---- did or did not compress.
may_pack_value(state, compressible) ==
    /\ compressible
    /\ state.status = VIO_COMPRESSING
    /\ ~state.may_not_compress

\* (mutant) a data VIO may block wherever it is short of the end of the path.
may_block_value_unless_done(state) == state.status # VIO_POST_PACKER

\* ---- may_block_in_packer: its value for a data VIO found in state.
may_block_value(state) == advance_status(state).status = VIO_PACKING

\* ---- may_write_compressed_data_vio: its value for a data VIO found in state.
may_write_compressed_value(state) == ~state.may_not_compress

\* ---- set_compression_done: the state one pass of its loop tries to store.
compression_done(state) == [state EXCEPT !.status = VIO_POST_PACKER]

\* ---- cancel_compression: its value for a data VIO found in state.
cancel_compression_value(state) ==
    /\ state.status = VIO_PACKING
    /\ ~state.may_not_compress

\* What a step of the compression path leaves alone.
outside_compression ==
    UNCHANGED <<lockVars, threadVars, ownerVars, writeVars, kvioVars, slabVars,
                entryVars, modifyVars>>

\* The record of a call that has returned.
returned(fn, v, value, state) ==
    [compress_calls EXCEPT
        !.last = [fn |-> fn, vio |-> v, value |-> value, state |-> state]]

\* ------------------------------------------------------------- the compression path: steps
\* ---- a call of the data VIO's thread loads the compression state.
LoadCompressionState(v, from, to) ==
    /\ compress_pc[v] = from
    /\ compress_pc' = [compress_pc EXCEPT ![v] = to]
    /\ compress_seen' = [compress_seen EXCEPT ![v] = get_compression_state(v)]
    /\ UNCHANGED <<compression_state, packer_bin, cancellers, compress_calls>>
    /\ outside_compression

\* ---- a compare-and-swap of the data VIO's thread fails: the loop loads the
\* ---- state again.
ReloadCompressionState(v, at) ==
    /\ compress_pc[v] = at
    /\ ~set_compression_state(v, compress_seen[v])
    /\ compress_seen' = [compress_seen EXCEPT ![v] = get_compression_state(v)]
    /\ UNCHANGED <<compression_state, compress_pc, packer_bin, cancellers,
                   compress_calls>>
    /\ outside_compression

\* ---- may_compress_data_vio, from the compare-and-swap of advanceStatus: the
\* ---- data VIO goes to the compressor, or on to be written uncompressed.
MayCompress(v) ==
    LET state == compress_seen[v]
        value == may_compress_value(state)
    IN  /\ compress_pc[v] = "may_compress"
        /\ set_compression_state(v, state)
        /\ compression_state' =
               [compression_state EXCEPT ![v] = advance_status(state)]
        /\ compress_pc' = [compress_pc EXCEPT
               ![v] = IF value THEN "compressing" ELSE "uncompressed"]
        /\ compress_calls' = returned("may_compress_data_vio", v, value, state)
        /\ UNCHANGED <<compress_seen, packer_bin, cancellers>>
        /\ outside_compression

\* ---- the compressor is done with the block, and may_pack_data_vio decides
\* ---- whether the fragment goes to the packer.
MayPack(v, compressible) ==
    LET state == get_compression_state(v)
        value == may_pack_value(state, compressible)
    IN  /\ compress_pc[v] = "compressing"
        /\ compress_pc' = [compress_pc EXCEPT
               ![v] = IF value THEN "to_packer" ELSE "uncompressed"]
        /\ compress_calls' = returned("may_pack_data_vio", v, value, state)
        /\ UNCHANGED <<compression_state, compress_seen, packer_bin,
                       cancellers>>
        /\ outside_compression

\* ---- may_block_in_packer, from the compare-and-swap of advanceStatus, on
\* ---- the packer's thread: the data VIO is put in the bin and blocks there,
\* ---- or goes on to be written uncompressed.
MayBlockInPacker(v) ==
    LET state == compress_seen[v]
        value == may_block_value(state)
    IN  /\ compress_pc[v] = "may_block"
        /\ set_compression_state(v, state)
        /\ compression_state' =
               [compression_state EXCEPT ![v] = advance_status(state)]
        /\ compress_pc' = [compress_pc EXCEPT
               ![v] = IF value THEN "blocked" ELSE "uncompressed"]
        /\ packer_bin' = IF value THEN packer_bin \cup {v} ELSE packer_bin
        /\ compress_calls' = returned("may_block_in_packer", v, value, state)
        /\ UNCHANGED <<compress_seen, cancellers>>
        /\ outside_compression

\* ---- the packer writes the bin: may_write_compressed_data_vio takes each
\* ---- data VIO of the bin off the path; one that may not compress is
\* ---- released to be written uncompressed, the others share the block.
write_bin ==
    /\ packer_bin # {}
    /\ compression_state' =
           [v \in CVios |->
               IF v \in packer_bin
               THEN advance_status(compression_state[v])
               ELSE compression_state[v]]
    /\ compress_pc' =
           [v \in CVios |->
               IF v \notin packer_bin THEN compress_pc[v]
               ELSE IF may_write_compressed_value(compression_state[v])
                    THEN "compressed" ELSE "uncompressed"]
    /\ packer_bin' = {}
    /\ UNCHANGED <<compress_seen, cancellers, compress_calls>>
    /\ outside_compression

\* ---- the bin is full.
WriteFullBin ==
    /\ Cardinality(packer_bin) >= BinSlots
    /\ write_bin

\* (mutant) the timer is armed only for a bin that is full.
timer_fires_when_full == Cardinality(packer_bin) >= BinSlots

\* The flush timer runs while a bin holds a fragment.
timer_fires == packer_bin # {}

\* ---- the flush timer of the packer fires: the partial bin is written.
FlushTimer ==
    /\ timer_fires
    /\ write_bin

\* ---- set_compression_done, from its compare-and-swap: the data VIO that is
\* ---- written uncompressed leaves the path.
SetCompressionDone(v) ==
    LET state == compress_seen[v]
    IN  /\ compress_pc[v] = "set_done"
        /\ state.status = VIO_POST_PACKER \/ set_compression_state(v, state)
        /\ compression_state' =
               IF state.status = VIO_POST_PACKER THEN compression_state
               ELSE [compression_state EXCEPT ![v] = compression_done(state)]
        /\ compress_pc' = [compress_pc EXCEPT ![v] = "done"]
        /\ UNCHANGED <<compress_seen, packer_bin, cancellers, compress_calls>>
        /\ outside_compression

\* ---- cancel_compression, called from another thread: the load.
CancelLoad(c, v) ==
    /\ cancellers[c].pc = "idle"
    /\ compress_calls.cancels < MaxCancels
    /\ cancellers' = [cancellers EXCEPT
           ![c] = [pc |-> "cancel", vio |-> v,
                   seen |-> get_compression_state(v)]]
    /\ compress_calls' = [compress_calls EXCEPT !.cancels = @ + 1]
    /\ UNCHANGED <<compression_state, compress_pc, compress_seen, packer_bin>>
    /\ outside_compression

\* ---- cancel_compression: a data VIO that may not compress or is off the
\* ---- path is left as it is; otherwise the compare-and-swap sets
\* ---- may_not_compress, and a failed one loads the state again.  The caller
\* ---- that is told it cancelled a data VIO in the packer goes to fetch it.
CancelCompression(c) ==
    LET v == cancellers[c].vio
        state == cancellers[c].seen
        value == cancel_compression_value(state)
        set == state.may_not_compress \/ state.status = VIO_POST_PACKER
    IN  /\ cancellers[c].pc = "cancel"
        /\ IF set \/ set_compression_state(v, state)
           THEN /\ compression_state' =
                       IF set THEN compression_state
                       ELSE [compression_state EXCEPT
                                ![v].may_not_compress = TRUE]
                /\ cancellers' = [cancellers EXCEPT
                       ![c] = IF value
                              THEN [idle_canceller EXCEPT
                                       !.pc = "remove", !.vio = v]
                              ELSE idle_canceller]
                /\ compress_calls' =
                       [returned("cancel_compression", v, value, state)
                           EXCEPT !.true_cancels[v] =
                                      IF value THEN @ + 1 ELSE @]
           ELSE /\ cancellers' = [cancellers EXCEPT
                       ![c].seen = get_compression_state(v)]
                /\ UNCHANGED <<compression_state, compress_calls>>
        /\ UNCHANGED <<compress_pc, compress_seen, packer_bin>>
        /\ outside_compression

\* ---- the caller that cancelled a data VIO in the packer takes it out of
\* ---- its bin, on the packer's thread; the data VIO goes on to be written
\* ---- uncompressed.  A data VIO the packer has written in the meantime is
\* ---- no longer there.
RemoveFromPacker(c) ==
    LET v == cancellers[c].vio
    IN  /\ cancellers[c].pc = "remove"
        /\ cancellers' = [cancellers EXCEPT ![c] = idle_canceller]
        /\ packer_bin' = packer_bin \ {v}
        /\ compress_pc' =
               IF v \in packer_bin
               THEN [compress_pc EXCEPT ![v] = "uncompressed"]
               ELSE compress_pc
        /\ UNCHANGED <<compression_state, compress_seen, compress_calls>>
        /\ outside_compression

\* ------------------------------------------------------------- the compression path: the system
CompressVioStep(v) ==
    \/ LoadCompressionState(v, "pre", "may_compress")
    \/ ReloadCompressionState(v, "may_compress")
    \/ MayCompress(v)
    \/ \E compressible \in BOOLEAN : MayPack(v, compressible)
    \/ /\ Cardinality(packer_bin) < BinSlots
       /\ LoadCompressionState(v, "to_packer", "may_block")
    \/ ReloadCompressionState(v, "may_block")
    \/ MayBlockInPacker(v)
    \/ LoadCompressionState(v, "uncompressed", "set_done")
    \/ ReloadCompressionState(v, "set_done")
    \/ SetCompressionDone(v)

CancelStep(c) ==
    \/ \E v \in CVios : CancelLoad(c, v)
    \/ CancelCompression(c)
    \/ RemoveFromPacker(c)

NextCompress ==
    \/ \E v \in CVios : CompressVioStep(v)
    \/ \E c \in CancelThreads : CancelStep(c)
    \/ WriteFullBin
    \/ FlushTimer

SpecCompress == Init /\ [][NextCompress]_vars

\* ---- the scheduling: no call on the compression path blocks, so every
\* ---- thread finishes the call it is in, and the flush timer of the packer
\* ---- fires while a bin holds a fragment.
LiveSpecCompress ==
    /\ SpecCompress
    /\ \A v \in CVios : WF_vars(CompressVioStep(v))
    /\ \A c \in CancelThreads :
           WF_vars(CancelCompression(c) \/ RemoveFromPacker(c))
    /\ WF_vars(FlushTimer)

\* ------------------------------------------------------------- Part 4: the kernel side of a request
outside_kvio ==
    UNCHANGED <<lockVars, threadVars, ownerVars, writeVars, compressVars,
                slabVars, entryVars, modifyVars>>

\* What a step leaves alone that reads no block and submits no bio.
outside_read == UNCHANGED <<read_block, served_bios>>

\* The logical blocks a bio touches.
blocks_of(bio) ==
    bio.block .. (bio.block + ((bio.offset + bio.size - 1) \div VDO_BLOCK_SIZE))

is_discard_bio(bio) == (bio # NULL) /\ (user_bio.kind = DISCARD)

min(a, b) == IF a < b THEN a ELSE b

\* complete_bio: the kernel is told that the bio is done, with an error or
\* with success.
complete_bio(bio, error, caller, kvio) ==
    [bio EXCEPT !.completions = @ + 1, !.error = error,
                !.completed_by = caller, !.completed_from = kvio]

\* kvdo_acknowledge_data_kvio: the bio of the request is completed with the
\* result of the data_vio, unless it has been already; the data_kvio lets go
\* of it first.
kvdo_acknowledge_data_kvio_keeping_bio(kvio, bio, caller) ==
    IF kvio.bio = NULL
        THEN [data_kvio |-> kvio, user_bio |-> bio]
        ELSE [data_kvio |-> kvio,
              user_bio |-> complete_bio(bio, kvio.result, caller, kvio)]

kvdo_acknowledge_data_kvio(kvio, bio, caller) ==
    IF kvio.bio = NULL
        THEN [data_kvio |-> kvio, user_bio |-> bio]
        ELSE [data_kvio |-> [kvio EXCEPT !.bio = NULL],
              user_bio |-> complete_bio(bio, kvio.result, caller, kvio)]

\* kvdo_create_kvio_from_bio and kvdo_launch_data_kvio_from_bio: a data_kvio
\* is taken from the pool for the bio and enqueued for the base code.
kvdo_launch_data_kvio_from_bio(kind, block, offset, size, has_discard_permit) ==
    /\ user_bio.kind = "none"
    /\ data_kvio.stage = "pool"
    /\ LET isPartial == (size < VDO_BLOCK_SIZE) \/ (offset # 0)
       IN  /\ user_bio' = [no_bio EXCEPT !.kind = kind, !.block = block,
                                         !.offset = offset, !.size = size]
           /\ data_kvio' =
                  [stage |-> "request_queue",
                   bio |-> 1,
                   lbn |-> block,
                   offset |-> offset,
                   isPartial |-> isPartial,
                   remaining_discard |-> IF kind = DISCARD THEN size ELSE 0,
                   hasDiscardPermit |-> (kind = DISCARD) /\ has_discard_permit,
                   operation |->
                       IF kind = DISCARD
                           THEN (IF isPartial THEN "VIO_READ_MODIFY_WRITE"
                                              ELSE "VIO_WRITE")
                       ELSE IF isPartial
                           THEN (IF kind = READ THEN "VIO_READ"
                                                ELSE "VIO_READ_MODIFY_WRITE")
                       ELSE IF kind = READ THEN "VIO_READ" ELSE "VIO_WRITE",
                   callback |->
                       IF kind = DISCARD THEN "kvdo_continue_discard_kvio"
                       ELSE IF isPartial /\ kind = READ
                           THEN "kvdo_complete_partial_read"
                       ELSE "kvdo_complete_data_kvio",
                   result |-> VDO_SUCCESS,
                   compression |-> [size |-> 0]]
    /\ kernel_layer' =
           [kernel_layer EXCEPT
                !.request_limiter = @ + 1,
                !.discard_limiter =
                    IF kind = DISCARD /\ has_discard_permit THEN @ + 1 ELSE @]
    /\ outside_kvio
    /\ outside_read

\* (mutant) a launch that fails keeps the discard permit.
release_permits_of_failed_launch_of_request_only(layer, has_discard_permit) ==
    [layer EXCEPT !.request_limiter = @ - 1]

\* kvdo_launch_data_kvio_from_bio, when kvdo_create_kvio_from_bio fails:
\* limiter_release of the discard limiter if the caller holds a discard
\* permit, and limiter_release of the request limiter.
release_permits_of_failed_launch(layer, has_discard_permit) ==
    [layer EXCEPT !.request_limiter = @ - 1,
                  !.discard_limiter = IF has_discard_permit THEN @ - 1 ELSE @]

\* kvdo_launch_data_kvio_from_bio for a bio admitted with its permits, when
\* no data_kvio can be made for it: the permits are given back and the
\* error returned.
kvdo_launch_data_kvio_from_bio_fails(kind, has_discard_permit) ==
    /\ user_bio.kind = "none"
    /\ data_kvio.stage = "pool"
    /\ kernel_layer.allocation_failures < MaxServed
    /\ LET admitted ==
               [kernel_layer EXCEPT
                    !.request_limiter = @ + 1,
                    !.discard_limiter =
                        IF has_discard_permit THEN @ + 1 ELSE @]
       IN  kernel_layer' =
               [release_permits_of_failed_launch(admitted, has_discard_permit)
                    EXCEPT !.allocation_failures = @ + 1]
    /\ UNCHANGED <<data_kvio, user_bio>>
    /\ outside_kvio
    /\ outside_read

\* The results the base code can give a data_vio: a read succeeds or fails
\* on what it reads; a write succeeds or finds no space, and in read-only
\* mode is rejected.
possible_results(operation) ==
    IF operation = "VIO_READ" THEN {VDO_SUCCESS, VDO_INVALID_FRAGMENT}
    ELSE IF readOnly THEN {VDO_READ_ONLY}
    ELSE {VDO_SUCCESS, VDO_NO_SPACE}

\* launchDataKVIOWork: the base code takes the data_vio through the read or
\* the write of its block, with success or with an error, and goes on to the
\* acknowledgement (a write) or to the callback of the data_vio (a read).  A
\* write that succeeds has changed what the device stores for the block.
launchDataKVIOWork(result) ==
    /\ data_kvio.stage = "request_queue"
    /\ result \in possible_results(data_kvio.operation)
    /\ data_kvio' =
           [data_kvio EXCEPT
                !.result = result,
                !.stage = IF data_kvio.operation = "VIO_READ"
                              THEN "callback" ELSE "acknowledge"]
    /\ user_bio' = [user_bio EXCEPT !.processed = @ \cup {data_kvio.lbn}]
    /\ kernel_layer' =
           [kernel_layer EXCEPT !.storage =
                IF data_kvio.operation # "VIO_READ" /\ result = VDO_SUCCESS
                    THEN @ \cup {data_kvio.lbn} ELSE @]
    /\ outside_kvio
    /\ outside_read

\* The remaining discard work is not completely processed by this VIO.
more_to_discard_never(kvio) == FALSE

more_to_discard(kvio) == is_discard_bio(kvio.bio) /\ (kvio.remaining_discard > (VDO_BLOCK_SIZE - kvio.offset))

\* acknowledgeDataVIO: the bio is acknowledged, here or on the bio
\* acknowledgement queue, unless the data_vio leaves part of a discard to do.
acknowledgeDataVIO ==
    /\ data_kvio.stage = "acknowledge"
    /\ IF more_to_discard(data_kvio)
           THEN /\ data_kvio' = [data_kvio EXCEPT !.stage = "callback"]
                /\ UNCHANGED user_bio
       ELSE IF kernel_layer.use_bio_ack_queue
           THEN /\ data_kvio' = [data_kvio EXCEPT !.stage = "bio_ack_queue"]
                /\ UNCHANGED user_bio
       ELSE LET after == kvdo_acknowledge_data_kvio(data_kvio, user_bio,
                                                    "acknowledgeDataVIO")
            IN  /\ data_kvio' = [after.data_kvio EXCEPT !.stage = "callback"]
                /\ user_bio' = after.user_bio
    /\ UNCHANGED kernel_layer
    /\ outside_kvio
    /\ outside_read

\* kvdo_acknowledge_data_kvio_then_continue, as the work item of the bio
\* acknowledgement queue.
kvdo_acknowledge_data_kvio_then_continue ==
    /\ data_kvio.stage = "bio_ack_queue"
    /\ LET after == kvdo_acknowledge_data_kvio(data_kvio, user_bio,
                                               "bio_ack_queue")
       IN  /\ data_kvio' = [after.data_kvio EXCEPT !.stage = "callback"]
           /\ user_bio' = after.user_bio
    /\ UNCHANGED kernel_layer
    /\ outside_kvio
    /\ outside_read

\* kvdo_complete_data_kvio: the data_kvio goes to the releaser, by way of the
\* bio acknowledgement queue when its bio is still to be acknowledged and the
\* layer acknowledges reads there.
kvdo_complete_data_kvio(kvio) ==
    IF /\ kernel_layer.use_bio_ack_queue
       /\ kernel_layer.USE_BIO_ACK_QUEUE_FOR_READ
       /\ kvio.bio # NULL
        THEN [kvio EXCEPT !.stage = "ack_then_complete"]
        ELSE [kvio EXCEPT !.stage = "releaser"]

\* (mutant) the next block is prepared with the offset of the first.
kvdo_continue_discard_kvio_keeping_offset ==
    /\ data_kvio.stage = "callback"
    /\ data_kvio.callback = "kvdo_continue_discard_kvio"
    /\ LET remaining_discard ==
               data_kvio.remaining_discard
                   - min(data_kvio.remaining_discard,
                         VDO_BLOCK_SIZE - data_kvio.offset)
           isPartial == remaining_discard < VDO_BLOCK_SIZE
       IN  IF (data_kvio.result # VDO_SUCCESS) \/ (remaining_discard = 0)
               THEN /\ kernel_layer' =
                           [kernel_layer EXCEPT !.discard_limiter =
                                IF data_kvio.hasDiscardPermit
                                    THEN @ - 1 ELSE @]
                    /\ data_kvio' = kvdo_complete_data_kvio(
                           [data_kvio EXCEPT
                                !.remaining_discard = remaining_discard,
                                !.hasDiscardPermit = FALSE])
               ELSE /\ UNCHANGED kernel_layer
                    /\ data_kvio' =
                           [data_kvio EXCEPT
                                !.remaining_discard = remaining_discard,
                                !.isPartial = isPartial,
                                !.operation =
                                    IF isPartial THEN "VIO_READ_MODIFY_WRITE"
                                                 ELSE "VIO_WRITE",
                                !.lbn = @ + 1,
                                !.stage = "request_queue"]
    /\ UNCHANGED user_bio
    /\ outside_kvio
    /\ outside_read

\* (mutant) the discard goes on after a block that failed.
kvdo_continue_discard_kvio_whatever_the_result ==
    /\ data_kvio.stage = "callback"
    /\ data_kvio.callback = "kvdo_continue_discard_kvio"
    /\ LET remaining_discard ==
               data_kvio.remaining_discard
                   - min(data_kvio.remaining_discard,
                         VDO_BLOCK_SIZE - data_kvio.offset)
           isPartial == remaining_discard < VDO_BLOCK_SIZE
       IN  IF remaining_discard = 0
               THEN /\ kernel_layer' =
                           [kernel_layer EXCEPT !.discard_limiter =
                                IF data_kvio.hasDiscardPermit
                                    THEN @ - 1 ELSE @]
                    /\ data_kvio' = kvdo_complete_data_kvio(
                           [data_kvio EXCEPT
                                !.remaining_discard = remaining_discard,
                                !.hasDiscardPermit = FALSE])
               ELSE /\ UNCHANGED kernel_layer
                    /\ data_kvio' =
                           [data_kvio EXCEPT
                                !.remaining_discard = remaining_discard,
                                !.isPartial = isPartial,
                                !.offset = 0,
                                !.operation =
                                    IF isPartial THEN "VIO_READ_MODIFY_WRITE"
                                                 ELSE "VIO_WRITE",
                                !.lbn = @ + 1,
                                !.stage = "request_queue"]
    /\ UNCHANGED user_bio
    /\ outside_kvio
    /\ outside_read

\* kvdo_continue_discard_kvio: the part of the discard this data_vio did is
\* taken off; with an error, or with nothing left, the data_kvio is
\* completed, and otherwise it goes on with the next block.
kvdo_continue_discard_kvio ==
    /\ data_kvio.stage = "callback"
    /\ data_kvio.callback = "kvdo_continue_discard_kvio"
    /\ LET remaining_discard ==
               data_kvio.remaining_discard
                   - min(data_kvio.remaining_discard,
                         VDO_BLOCK_SIZE - data_kvio.offset)
           isPartial == remaining_discard < VDO_BLOCK_SIZE
       IN  IF (data_kvio.result # VDO_SUCCESS) \/ (remaining_discard = 0)
               THEN /\ kernel_layer' =
                           [kernel_layer EXCEPT !.discard_limiter =
                                IF data_kvio.hasDiscardPermit
                                    THEN @ - 1 ELSE @]
                    /\ data_kvio' = kvdo_complete_data_kvio(
                           [data_kvio EXCEPT
                                !.remaining_discard = remaining_discard,
                                !.hasDiscardPermit = FALSE])
               ELSE /\ UNCHANGED kernel_layer
                    /\ data_kvio' =
                           [data_kvio EXCEPT
                                !.remaining_discard = remaining_discard,
                                !.isPartial = isPartial,
                                !.offset = 0,
                                !.operation =
                                    IF isPartial THEN "VIO_READ_MODIFY_WRITE"
                                                 ELSE "VIO_WRITE",
                                !.lbn = @ + 1,
                                !.stage = "request_queue"]
    /\ UNCHANGED user_bio
    /\ outside_kvio
    /\ outside_read

\* bio_copy_data_out: the bio has the data it is given.
bio_copy_data_out(bio, data) == [bio EXCEPT !.copied = data]

\* kvdo_complete_partial_read: the data of the read_block is copied to the
\* bio and the data_kvio is completed.
kvdo_complete_partial_read ==
    /\ data_kvio.stage = "callback"
    /\ data_kvio.callback = "kvdo_complete_partial_read"
    /\ user_bio' = bio_copy_data_out(user_bio, read_block.data)
    /\ data_kvio' = kvdo_complete_data_kvio(data_kvio)
    /\ UNCHANGED kernel_layer
    /\ outside_kvio
    /\ outside_read

\* kvdo_complete_data_kvio as the callback of a read or a write of one block.
CompleteDataKvio ==
    /\ data_kvio.stage = "callback"
    /\ data_kvio.callback = "kvdo_complete_data_kvio"
    /\ data_kvio' = kvdo_complete_data_kvio(data_kvio)
    /\ UNCHANGED <<user_bio, kernel_layer>>
    /\ outside_kvio
    /\ outside_read

\* kvdo_acknowledge_then_complete_data_kvio, as the work item of the bio
\* acknowledgement queue.
kvdo_acknowledge_then_complete_data_kvio ==
    /\ data_kvio.stage = "ack_then_complete"
    /\ LET after == kvdo_acknowledge_data_kvio(
                        data_kvio, user_bio,
                        "kvdo_acknowledge_then_complete_data_kvio")
       IN  /\ data_kvio' = [after.data_kvio EXCEPT !.stage = "releaser"]
           /\ user_bio' = after.user_bio
    /\ UNCHANGED kernel_layer
    /\ outside_kvio
    /\ outside_read

\* clean_data_kvio: the bio is acknowledged if it has not been, and the
\* data_kvio is put with the buffers to free.
clean_data_kvio(kvio, bio) ==
    LET after == kvdo_acknowledge_data_kvio(kvio, bio, "clean_data_kvio")
    IN  [data_kvio |-> [after.data_kvio EXCEPT !.stage = "pool"],
         user_bio |-> after.user_bio]

\* complete_many_requests(layer, count): the request limiter gets back the
\* permits of the requests that are done.
complete_many_requests(layer, count) ==
    [layer EXCEPT !.request_limiter = @ - count]

\* return_data_kvio_batch_to_pool: the releaser cleans the data_kvio of its
\* batch, gives it back to the pool and completes the request.
return_data_kvio_batch_to_pool ==
    /\ data_kvio.stage = "releaser"
    /\ LET after == clean_data_kvio(data_kvio, user_bio)
       IN  /\ data_kvio' = after.data_kvio
           /\ user_bio' = after.user_bio
    /\ kernel_layer' = complete_many_requests(kernel_layer, 1)
    /\ outside_kvio
    /\ outside_read

NextKvio ==
    \/ \E kind \in {READ, WRITE}, offset \in 0 .. (VDO_BLOCK_SIZE - 1) :
           \E size \in 1 .. (VDO_BLOCK_SIZE - offset) :
               kvdo_launch_data_kvio_from_bio(kind, 0, offset, size, FALSE)
    \/ \E offset \in 0 .. (VDO_BLOCK_SIZE - 1), size \in 1 .. MaxBioSize,
          has_discard_permit \in BOOLEAN :
           kvdo_launch_data_kvio_from_bio(DISCARD, 0, offset, size,
                                          has_discard_permit)
    \/ \E result \in {VDO_SUCCESS, VDO_NO_SPACE, VDO_INVALID_FRAGMENT,
                       VDO_READ_ONLY} :
           launchDataKVIOWork(result)
    \/ acknowledgeDataVIO
    \/ kvdo_acknowledge_data_kvio_then_continue
    \/ kvdo_continue_discard_kvio
    \/ kvdo_complete_partial_read
    \/ CompleteDataKvio
    \/ kvdo_acknowledge_then_complete_data_kvio
    \/ return_data_kvio_batch_to_pool

\* The layer is made with or without a bio acknowledgement queue, and built
\* to acknowledge reads on it or not.
InitKvioPath ==
    /\ make_lock_counter
    /\ load_vdo(FALSE, FALSE)
    /\ pc = [t \in Threads |-> "idle"]
    /\ lock_arg = [t \in Threads |-> 0]
    /\ inUse = {}
    /\ reapedLogical = {}
    /\ callbacksSinceAck = 0
    /\ observedUnderflow = {}
    /\ assertLog = {}
    /\ readOnly = FALSE
    /\ InitCompress
    /\ \E use_bio_ack_queue, ack_reads \in BOOLEAN :
           kernel_layer = idle_kernel_layer(use_bio_ack_queue, ack_reads)
    /\ data_kvio = pooled_data_kvio
    /\ user_bio = no_bio
    /\ read_block = no_read_block
    /\ served_bios = <<>>
    /\ InitSlab
    /\ InitEntry
    /\ InitModify

SpecKvio == InitKvioPath /\ [][NextKvio]_vars

\* The requests, and the bios for which no data_kvio can be made.
NextAdmission ==
    \/ NextKvio
    \/ \E kind \in {READ, WRITE} :
           kvdo_launch_data_kvio_from_bio_fails(kind, FALSE)
    \/ \E has_discard_permit \in BOOLEAN :
           kvdo_launch_data_kvio_from_bio_fails(DISCARD, has_discard_permit)

SpecAdmission == InitKvioPath /\ [][NextAdmission]_vars

\* ------------------------------------------------------------- Part 5: read-only mode and the drain of a slab
outside_slab ==
    UNCHANGED <<lockVars, threadVars, ownerVars, writeVars, compressVars,
                kvioVars, entryVars, modifyVars>>

\* A fatal error in some zone puts the device in read-only mode.
enter_read_only_mode ==
    /\ ~readOnly
    /\ readOnly' = TRUE
    /\ UNCHANGED <<lockVars, threadVars, inUse, reapedLogical,
                   callbacksSinceAck, observedUnderflow, assertLog, writeVars,
                   laterVars>>

is_read_only == readOnly

is_vdo_state_draining(state) ==
    state \in {"ADMIN_STATE_SAVING", "ADMIN_STATE_SUSPENDING",
               "ADMIN_STATE_SCRUBBING"}

is_vdo_state_loading(state) ==
    state \in {"ADMIN_STATE_LOADING", "ADMIN_STATE_LOADING_FOR_RECOVERY"}

is_vdo_state_clean_load(state) == state = "ADMIN_STATE_LOADING"

is_vdo_state_resuming(state) == state = "ADMIN_STATE_RESUMING"

is_vdo_state_quiescent(state) ==
    state \in {"ADMIN_STATE_SAVED", "ADMIN_STATE_SUSPENDED"}

\* The state an operation leaves when it is done: a save and a suspend
\* leave the slab quiescent, every other operation leaves it in normal
\* operation.
get_next_state(operation) ==
    IF operation = "ADMIN_STATE_SAVING" THEN "ADMIN_STATE_SAVED"
    ELSE IF operation = "ADMIN_STATE_SUSPENDING" THEN "ADMIN_STATE_SUSPENDED"
    ELSE IF operation = "ADMIN_STATE_SUSPENDED_OPERATION"
        THEN "ADMIN_STATE_SUSPENDED"
    ELSE "ADMIN_STATE_NORMAL_OPERATION"

\* finish_vdo_operation_with_result: the operation is over, the state is
\* the one that follows it and the waiter of the operation gets the result.
finish_vdo_operation_with_result(slab, result) ==
    [slab EXCEPT !.state = slab.next_state, !.result = result]

is_slab_journal_active(journal) == journal.active

are_ref_counts_active(ref_counts) == ref_counts.active

\* finish_vdo_draining_with_result: the draining state becomes its quiescent
\* state and the waiter of the operation gets the result.
finish_vdo_draining_with_result(slab, result) ==
    IF is_vdo_state_draining(slab.state)
        THEN finish_vdo_operation_with_result(slab, result)
        ELSE slab

\* The result with which check_if_slab_drained finishes the drain.
drained_result_whatever_the_mode == VDO_SUCCESS

drained_result == IF is_read_only THEN VDO_READ_ONLY ELSE VDO_SUCCESS

\* (mutant) the slab has drained whatever its journal has in flight.
check_if_slab_drained_with_the_journal_active(slab) ==
    IF /\ is_vdo_state_draining(slab.state)
       /\ \/ ~slab.reference_counts.allocated
          \/ ~are_ref_counts_active(slab.reference_counts)
        THEN finish_vdo_draining_with_result(slab, drained_result)
        ELSE slab

\* check_if_slab_drained: a draining slab whose journal and whose reference
\* counts have nothing in flight has drained.
check_if_slab_drained(slab) ==
    IF /\ is_vdo_state_draining(slab.state)
       /\ ~is_slab_journal_active(slab.journal)
       /\ \/ ~slab.reference_counts.allocated
          \/ ~are_ref_counts_active(slab.reference_counts)
        THEN finish_vdo_draining_with_result(slab, drained_result)
        ELSE slab

\* A part of the slab starts the write of what it has dirty, unless the
\* device is read-only: then it writes nothing.
drain_part(part) ==
    IF part.dirty /\ ~is_read_only
        THEN [part EXCEPT !.dirty = FALSE, !.active = TRUE, !.writes = @ + 1]
        ELSE part

\* A reference count of the slab changes: its journal gets an entry and its
\* reference counts are dirty.  Nothing changes in read-only mode.
ModifySlab ==
    /\ vdo_slab.state = "ADMIN_STATE_NORMAL_OPERATION"
    /\ ~is_read_only
    /\ vdo_slab.reference_counts.allocated
    /\ ~vdo_slab.journal.dirty
    /\ vdo_slab' = [vdo_slab EXCEPT !.journal.dirty = TRUE,
                                    !.reference_counts.dirty = TRUE]
    /\ outside_slab

\* (mutant) every slab is put in the priority table.
queue_vdo_slab_in_the_priority_table(slab) == [slab EXCEPT !.queue = "priority_table"]

\* queue_vdo_slab: a slab that is not recovered is registered with the
\* scrubber, and any other slab is put in the priority table from which the
\* allocator takes the slab to allocate from.
queue_vdo_slab(slab) ==
    IF slab.status # SLAB_REBUILT
        THEN [slab EXCEPT !.queue = "slab_scrubber"]
        ELSE [slab EXCEPT !.queue = "priority_table"]

\* (mutant) whatever the operation is not, it is taken for a resume.
initiate_slab_action_resuming_otherwise(slab) == IF is_vdo_state_draining(slab.state) \/ is_vdo_state_loading(slab.state) THEN slab ELSE finish_vdo_operation_with_result(queue_vdo_slab(slab), VDO_SUCCESS)

\* initiate_slab_action: a drain drains the journal and the reference counts
\* (and the slab may have drained already), a load decodes the journal, a
\* resume queues the slab, and any other operation is finished with
\* VDO_INVALID_ADMIN_STATE.
initiate_slab_action(slab) ==
    IF is_vdo_state_draining(slab.state)
        THEN check_if_slab_drained(
                 [slab EXCEPT
                      !.status = IF slab.state = "ADMIN_STATE_SCRUBBING"
                                     THEN SLAB_REBUILDING ELSE @,
                      !.journal = drain_part(@),
                      !.reference_counts =
                          IF @.allocated THEN drain_part(@) ELSE @])
    ELSE IF is_vdo_state_loading(slab.state)
        THEN [slab EXCEPT !.journal.decoding = TRUE]
    ELSE IF is_vdo_state_resuming(slab.state)
        THEN finish_vdo_operation_with_result(queue_vdo_slab(slab),
                                              VDO_SUCCESS)
    ELSE finish_vdo_operation_with_result(slab, VDO_INVALID_ADMIN_STATE)

\* An operation may start on a slab in which none is under way, a resume
\* and an operation of the suspended slab when it is quiescent and any
\* other when it is not.
may_start_operation(slab, operation) ==
    /\ slab.state \in {"ADMIN_STATE_NORMAL_OPERATION", "ADMIN_STATE_SAVED",
                       "ADMIN_STATE_SUSPENDED"}
    /\ is_vdo_state_quiescent(slab.state)
           <=> (operation \in {"ADMIN_STATE_RESUMING",
                               "ADMIN_STATE_SUSPENDED_OPERATION"})

\* start_vdo_operation_with_waiter: an operation that may not start is
\* refused with VDO_INVALID_ADMIN_STATE; one that may is the state of the
\* slab, and the initiator is called.
start_vdo_operation_with_waiter(slab, operation) ==
    IF ~may_start_operation(slab, operation)
        THEN [slab EXCEPT !.result = VDO_INVALID_ADMIN_STATE]
        ELSE initiate_slab_action(
                 [slab EXCEPT !.state = operation,
                              !.operation = operation,
                              !.next_state = get_next_state(operation),
                              !.result = "none"])

\* start_slab_action
start_slab_action(operation) ==
    /\ vdo_slab' = start_vdo_operation_with_waiter(vdo_slab, operation)
    /\ outside_slab

\* allocate_ref_counts_for_slab: the reference counts of the slab are made,
\* unless it has them: then the assertion fails and its code is returned.
allocate_ref_counts_for_slab ==
    LET asserted == ASSERT(assertLog, ~vdo_slab.reference_counts.allocated,
                           "vdo_slab doesn't allocate refcounts twice")
    IN  /\ vdo_slab.state = "ADMIN_STATE_NORMAL_OPERATION"
        /\ assertLog' = asserted.log
        /\ vdo_slab' =
               IF asserted.result # VDO_SUCCESS
                   THEN [vdo_slab EXCEPT !.allocation_result = asserted.result]
                   ELSE [vdo_slab EXCEPT !.allocation_result = VDO_SUCCESS,
                                         !.reference_counts.allocated = TRUE]
        /\ UNCHANGED <<lockVars, threadVars, inUse, reapedLogical,
                       callbacksSinceAck, observedUnderflow, readOnly,
                       writeVars, compressVars, kvioVars, entryVars, modifyVars>>

\* The write of a part of the slab is done, with success or after the device
\* went read-only, and the part asks whether the slab has drained.
WriteCompleted(part) ==
    /\ vdo_slab[part].active
    /\ vdo_slab' = check_if_slab_drained(
           [vdo_slab EXCEPT ![part].active = FALSE])
    /\ outside_slab

NextReadOnly ==
    \/ NextKvio
    \/ enter_read_only_mode
    \/ allocate_ref_counts_for_slab
    \/ ModifySlab
    \/ start_slab_action("ADMIN_STATE_SAVING")
    \/ WriteCompleted("journal")
    \/ WriteCompleted("reference_counts")

SpecReadOnly == InitKvioPath /\ [][NextReadOnly]_vars

\* ------------------------------------------------------------- the slab: its admin actions and its scrubbing
\* The operations asked of a slab: the drains, the loads, the resume, and
\* two that are none of these.
DrainOperations == {"ADMIN_STATE_SAVING", "ADMIN_STATE_SUSPENDING"}
LoadOperations == {"ADMIN_STATE_LOADING", "ADMIN_STATE_LOADING_FOR_RECOVERY"}
OtherOperations == {"ADMIN_STATE_FORMATTING", "ADMIN_STATE_SUSPENDED_OPERATION"}

\* The slab is in normal operation with its journal decoded.
is_loaded(slab) ==
    /\ slab.state = "ADMIN_STATE_NORMAL_OPERATION"
    /\ slab.journal.loaded

\* A drain, the resume or another operation is asked of the slab.
StartSlabAction(operation) ==
    /\ operation \in DrainOperations => is_loaded(vdo_slab)
    /\ start_slab_action(operation)

\* The load of a slab that has not been loaded.
LoadSlab(operation) ==
    /\ ~vdo_slab.journal.loaded
    /\ ~vdo_slab.journal.decoding
    /\ start_slab_action(operation)

\* notify_slab_journal_is_loaded: the journal is decoded; after a clean load
\* the reference counts are allocated, and the load is finished.
notify_slab_journal_is_loaded(result) ==
    LET clean == (result = VDO_SUCCESS) /\ is_vdo_state_clean_load(vdo_slab.state)
        asserted == ASSERT(assertLog, ~vdo_slab.reference_counts.allocated,
                           "vdo_slab doesn't allocate refcounts twice")
        loaded == [vdo_slab EXCEPT
                       !.journal.decoding = FALSE,
                       !.journal.loaded = TRUE,
                       !.allocation_result =
                           IF clean THEN asserted.result ELSE @,
                       !.reference_counts.allocated =
                           IF clean /\ asserted.result = VDO_SUCCESS
                               THEN TRUE ELSE @]
    IN  /\ vdo_slab.journal.decoding
        /\ assertLog' = IF clean THEN asserted.log ELSE assertLog
        /\ vdo_slab' = finish_vdo_operation_with_result(
               loaded, IF clean THEN asserted.result ELSE result)
        /\ UNCHANGED <<lockVars, threadVars, inUse, reapedLogical,
                       callbacksSinceAck, observedUnderflow, readOnly,
                       writeVars, compressVars, kvioVars, entryVars, modifyVars>>

\* mark_slab_unrecovered, as the recovery calls it for a slab it loaded and
\* has not yet given to the allocator.
mark_slab_unrecovered ==
    /\ is_loaded(vdo_slab)
    /\ vdo_slab.queue = "none"
    /\ vdo_slab.status = SLAB_REBUILT
    /\ vdo_slab' = [vdo_slab EXCEPT !.status = SLAB_REQUIRES_SCRUBBING]
    /\ outside_slab

\* The allocator is prepared to allocate: it queues the slab.
prepare_to_allocate ==
    /\ is_loaded(vdo_slab)
    /\ vdo_slab.queue = "none"
    /\ vdo_slab.status # SLAB_REBUILDING
    /\ vdo_slab.reference_counts.allocated
    /\ vdo_slab' = queue_vdo_slab(vdo_slab)
    /\ outside_slab

\* The allocator takes the slab of its priority table and allocates a block
\* from it.
allocate_from_slab ==
    /\ vdo_slab.queue = "priority_table"
    /\ vdo_slab.state = "ADMIN_STATE_NORMAL_OPERATION"
    /\ vdo_slab.allocations < MaxAllocations
    /\ vdo_slab' = [vdo_slab EXCEPT !.allocations = @ + 1]
    /\ outside_slab

\* The scrubber takes the slab registered with it and starts to scrub it.
scrub_next_slab ==
    /\ vdo_slab.queue = "slab_scrubber"
    /\ vdo_slab.status = SLAB_REQUIRES_SCRUBBING
    /\ is_loaded(vdo_slab)
    /\ vdo_slab' = start_vdo_operation_with_waiter(
           [vdo_slab EXCEPT !.queue = "none"], "ADMIN_STATE_SCRUBBING")
    /\ outside_slab

\* finish_scrubbing_slab, as the scrubber calls it once the slab it scrubs
\* has drained and its journal has been applied: the slab is rebuilt and
\* queued, and its journal is reopened.
slab_scrubbed ==
    /\ vdo_slab.status = SLAB_REBUILDING
    /\ vdo_slab.state = "ADMIN_STATE_NORMAL_OPERATION"
    /\ vdo_slab' = queue_vdo_slab([vdo_slab EXCEPT !.status = SLAB_REBUILT])
    /\ outside_slab

\* A reference count of the slab changes, while the journal has written
\* fewer blocks than the bound.
ModifyLoadedSlab ==
    /\ vdo_slab.journal.writes < MaxWrites
    /\ ModifySlab

NextSlab ==
    \/ \E operation \in DrainOperations \cup OtherOperations
                            \cup {"ADMIN_STATE_RESUMING"} :
           StartSlabAction(operation)
    \/ \E operation \in LoadOperations : LoadSlab(operation)
    \/ \E result \in {VDO_SUCCESS, EIO} : notify_slab_journal_is_loaded(result)
    \/ allocate_ref_counts_for_slab
    \/ mark_slab_unrecovered
    \/ prepare_to_allocate
    \/ allocate_from_slab
    \/ ModifyLoadedSlab
    \/ WriteCompleted("journal")
    \/ WriteCompleted("reference_counts")
    \/ scrub_next_slab
    \/ slab_scrubbed

SpecSlab == InitKvioPath /\ [][NextSlab]_vars

\* ------------------------------------------------------------- Part 6: the block map entry
\* The bytes tried in the low word of a PBN, in its fifth byte (whose low
\* nibble is the highest part an entry keeps) and above it.
LowWordBytes == {1, 254}
FifthBytes == {0, 5, 16, 165, 255}
HighBytes == {0, 255}

\* The mapping states: every value of four bits.
MappingStates == 0 .. 15
MAPPING_STATE_UNMAPPED == 0
MAPPING_STATE_UNCOMPRESSED == 1
MAPPING_STATE_COMPRESSED_BASE == 2

\* The builds: for a little-endian and for a big-endian host.
Hosts == {"little_endian", "big_endian"}

\* The PBNs tried.
SamplePbns ==
    {low \o <<b5, b6, 0, b6>> :
        low \in {<<b1, b2, b3, b4>> : b1, b2, b3, b4 \in LowWordBytes}
                    \cup {<<0, 0, 0, 0>>},
        b5 \in FifthBytes, b6 \in HighBytes}

\* The PBN of no block.
zero_pbn == <<0, 0, 0, 0, 0, 0, 0, 0>>

is_compressed(state) == state >= MAPPING_STATE_COMPRESSED_BASE

is_mapped_location(location) == location.state # MAPPING_STATE_UNMAPPED

is_valid_location_of_any_pbn(location) == is_mapped_location(location)

is_valid_location(location) == IF location.pbn = zero_pbn THEN ~is_compressed(location.state) ELSE is_mapped_location(location)

\* The mappings the write path puts in the block map: no block for a block
\* of zeros and for a discard; a block of the device, uncompressed, for new
\* data and for a duplicate; a block of the device and the slot of the
\* fragment for compressed data.
write_path_locations(origin) ==
    LET data_pbns == {pbn \in SamplePbns :
                         /\ pbn # zero_pbn
                         /\ pbn[5] < 16
                         /\ \A i \in 6 .. 8 : pbn[i] = 0}
    IN  CASE origin = "zero_block" ->
                 {data_location(zero_pbn, MAPPING_STATE_UNCOMPRESSED)}
          [] origin = "discard" ->
                 {data_location(zero_pbn, MAPPING_STATE_UNMAPPED)}
          [] origin = "data" ->
                 {data_location(pbn, MAPPING_STATE_UNCOMPRESSED) :
                      pbn \in data_pbns}
          [] origin = "compressed" ->
                 {data_location(pbn, state) :
                      pbn \in data_pbns,
                      state \in MAPPING_STATE_COMPRESSED_BASE .. 15}
          [] OTHER ->
                 {data_location(pbn, state) :
                      pbn \in SamplePbns, state \in MappingStates}

\* The two bit-fields of the first byte of an entry, in the order in which
\* the build for a host declares them.
fields_as_declared_for_any_host(entry, host) == <<entry.mapping_state, entry.pbn_high_nibble>>

fields_as_declared(entry, host) == IF host = "little_endian" THEN <<entry.mapping_state, entry.pbn_high_nibble>> ELSE <<entry.pbn_high_nibble, entry.mapping_state>>

\* The byte of two bit-fields of four bits: a little-endian build puts the
\* first declared in the low bits, a big-endian build in the high bits.
bit_fields_byte(fields, host) ==
    IF host = "little_endian" THEN fields[1] + (16 * fields[2])
    ELSE (16 * fields[1]) + fields[2]

\* block_map_entry.raw: the five bytes of an entry.
raw(entry, host) ==
    <<bit_fields_byte(fields_as_declared(entry, host), host)>>
        \o entry.pbn_low_word

\* value >> 32, of a value of eight bytes: its four high bytes.
shift_right_32(value) == SubSeq(value, 5, 8)

\* value & UINT_MAX, of a value of eight bytes: its four low bytes.
low_word(value) == SubSeq(value, 1, 4)

\* value & 0x0F: the low nibble of the lowest byte.
low_nibble(value) == value[1] % 16

\* put_unaligned_le32 and get_unaligned_le32: the four bytes of a word, the
\* least significant first, and the word of four such bytes.
put_unaligned_le32(word) == [i \in 1 .. 4 |-> word[i]]
get_unaligned_le32(bytes) == [i \in 1 .. 4 |-> bytes[i]]

\* (high4 << 32) | low32, as a value of eight bytes.
high4_over_low32(high4, low32) == low32 \o <<high4, 0, 0, 0>>

\* pack_pbn: the mapping state, the nibble above the low word and the low
\* word of the PBN.
pack_pbn_low_word_only(pbn, mapping_state) == [mapping_state |-> mapping_state % 16, pbn_high_nibble |-> 0, pbn_low_word |-> put_unaligned_le32(low_word(pbn)), made |-> TRUE]

pack_pbn(pbn, mapping_state) == [mapping_state |-> mapping_state % 16, pbn_high_nibble |-> low_nibble(shift_right_32(pbn)), pbn_low_word |-> put_unaligned_le32(low_word(pbn)), made |-> TRUE]

\* unpack_block_map_entry
unpack_block_map_entry(entry) ==
    LET low32 == get_unaligned_le32(entry.pbn_low_word)
        high4 == entry.pbn_high_nibble
    IN  [pbn |-> high4_over_low32(high4, low32),
         state |-> entry.mapping_state,
         made |-> TRUE]

outside_entry ==
    UNCHANGED <<lockVars, threadVars, ownerVars, writeVars, compressVars,
                kvioVars, slabVars, modifyVars>>

PackPbn ==
    /\ ~map_entry.made
    /\ map_entry' = pack_pbn(map_location.pbn, map_location.state)
    /\ UNCHANGED <<map_origin, map_location, map_unpacked>>
    /\ outside_entry

UnpackBlockMapEntry ==
    /\ map_entry.made
    /\ ~map_unpacked.made
    /\ map_unpacked' = unpack_block_map_entry(map_entry)
    /\ UNCHANGED <<map_origin, map_location, map_entry>>
    /\ outside_entry

NextEntry ==
    \/ PackPbn
    \/ UnpackBlockMapEntry

\* Any PBN of the bytes tried and any mapping state is given to pack_pbn.
InitEntryPath ==
    /\ make_lock_counter
    /\ load_vdo(FALSE, FALSE)
    /\ pc = [t \in Threads |-> "idle"]
    /\ lock_arg = [t \in Threads |-> 0]
    /\ inUse = {}
    /\ reapedLogical = {}
    /\ callbacksSinceAck = 0
    /\ observedUnderflow = {}
    /\ assertLog = {}
    /\ readOnly = FALSE
    /\ InitCompress
    /\ InitKvio
    /\ InitSlab
    /\ InitModify
    /\ map_origin \in {"input", "zero_block", "discard", "data", "compressed"}
    /\ map_location \in write_path_locations(map_origin)
    /\ map_entry = no_entry
    /\ map_unpacked = no_location

SpecEntry == InitEntryPath /\ [][NextEntry]_vars

\* ------------------------------------------------------------- Part 7: the read of a compressed block
\* The compressed mapping states read: the first slot and the last.
CompressedStates == {MAPPING_STATE_COMPRESSED_BASE, 15}

\* What LZ4_uncompress_unknownOutputSize returns: an error, the size of less
\* than a block, the size of a block.
LZ4Sizes == {-1, VDO_BLOCK_SIZE - 1, VDO_BLOCK_SIZE}

\* set_completion_result: the completion keeps the first error it is given.
set_completion_result(kvio, result) ==
    IF kvio.result = VDO_SUCCESS THEN [kvio EXCEPT !.result = result] ELSE kvio

\* (mutant) the callback goes on to copy the data whatever the status.
read_data_kvio_read_block_callback_whatever_the_status(kvio, block) == [kvio EXCEPT !.stage = "cpu_queue_copy"]

\* read_data_kvio_read_block_callback: with an error, the error is the
\* result of the data_vio, whose callback is enqueued; with success, the
\* copy of the data is launched on the CPU queue.
read_data_kvio_read_block_callback(kvio, block) ==
    IF block.status # VDO_SUCCESS
        THEN [set_completion_result(kvio, block.status) EXCEPT
                  !.stage = "callback"]
        ELSE [kvio EXCEPT !.stage = "cpu_queue_copy"]

\* readDataVIO for a compressed mapping, and kvdo_read_block: the read_block
\* is set up and its bio is submitted.  (A mapping that is not compressed is
\* read straight into the bio of the request: launchDataKVIOWork.)
readDataVIO(mapping_state) ==
    /\ data_kvio.stage = "request_queue"
    /\ data_kvio.operation = "VIO_READ"
    /\ is_compressed(mapping_state)
    /\ read_block' = [read_block EXCEPT
                          !.callback = "read_data_kvio_read_block_callback",
                          !.status = VDO_SUCCESS,
                          !.mapping_state = mapping_state]
    /\ data_kvio' = [data_kvio EXCEPT !.stage = "bio_queue"]
    /\ user_bio' = [user_bio EXCEPT !.processed = @ \cup {data_kvio.lbn}]
    /\ UNCHANGED <<kernel_layer, served_bios>>
    /\ outside_kvio

\* read_bio_callback and complete_read: the storage has read the block, or
\* failed to; what was read of a compressed mapping is uncompressed on the
\* CPU queue, and otherwise the callback of the read_block is called.
read_bio_callback(result) ==
    /\ data_kvio.stage = "bio_queue"
    /\ LET block == [read_block EXCEPT !.data = "buffer", !.status = result]
       IN  /\ read_block' = block
           /\ data_kvio' =
                  IF (result = VDO_SUCCESS) /\ is_compressed(block.mapping_state)
                      THEN [data_kvio EXCEPT !.stage = "cpu_queue_uncompress"]
                      ELSE read_data_kvio_read_block_callback(data_kvio, block)
    /\ UNCHANGED <<user_bio, kernel_layer, served_bios>>
    /\ outside_kvio

\* uncompress_read_block: the fragment is found in the block, or is not;
\* found, it is uncompressed into the scratch block, which is the data of
\* the read_block if it got a whole block and VDO_INVALID_FRAGMENT if not.
uncompress_read_block(result, size) ==
    /\ data_kvio.stage = "cpu_queue_uncompress"
    /\ LET block ==
               IF result # VDO_SUCCESS
                   THEN [read_block EXCEPT !.status = result]
               ELSE IF size = VDO_BLOCK_SIZE
                   THEN [read_block EXCEPT !.data = "scratch_block"]
               ELSE [read_block EXCEPT !.status = VDO_INVALID_FRAGMENT]
       IN  /\ read_block' = block
           /\ data_kvio' = read_data_kvio_read_block_callback(data_kvio, block)
    /\ UNCHANGED <<user_bio, kernel_layer, served_bios>>
    /\ outside_kvio

\* copy_read_block_data: for a read-modify-write and for a partial read the
\* callback of the data_vio is enqueued; for a read of a whole block the
\* data is copied to the bio, which is acknowledged.
copy_read_block_data ==
    /\ data_kvio.stage = "cpu_queue_copy"
    /\ IF data_kvio.operation = "VIO_READ_MODIFY_WRITE" \/ data_kvio.isPartial
           THEN /\ data_kvio' = [data_kvio EXCEPT !.stage = "callback"]
                /\ UNCHANGED user_bio
           ELSE /\ data_kvio' = [data_kvio EXCEPT !.stage = "acknowledge"]
                /\ user_bio' = bio_copy_data_out(user_bio, read_block.data)
    /\ UNCHANGED <<read_block, kernel_layer, served_bios>>
    /\ outside_kvio

\* The submitter, told that its bio is done, submits another.
submit_next_bio ==
    /\ data_kvio.stage = "pool"
    /\ user_bio.completions >= 1
    /\ Len(served_bios) < MaxServed
    /\ served_bios' = Append(served_bios, user_bio)
    /\ user_bio' = no_bio
    /\ UNCHANGED <<kernel_layer, data_kvio, read_block>>
    /\ outside_kvio

NextRead ==
    \/ \E offset \in 0 .. (VDO_BLOCK_SIZE - 1) :
           \E size \in 1 .. (VDO_BLOCK_SIZE - offset) :
               kvdo_launch_data_kvio_from_bio(READ, 0, offset, size, FALSE)
    \/ \E mapping_state \in CompressedStates : readDataVIO(mapping_state)
    \/ \E result \in {VDO_SUCCESS, EIO} : read_bio_callback(result)
    \/ \E result \in {VDO_SUCCESS, VDO_INVALID_FRAGMENT}, size \in LZ4Sizes :
           uncompress_read_block(result, size)
    \/ copy_read_block_data
    \/ acknowledgeDataVIO
    \/ kvdo_acknowledge_data_kvio_then_continue
    \/ kvdo_complete_partial_read
    \/ CompleteDataKvio
    \/ kvdo_acknowledge_then_complete_data_kvio
    \/ return_data_kvio_batch_to_pool
    \/ submit_next_bio

SpecRead == InitKvioPath /\ [][NextRead]_vars

\* ------------------------------------------------------------- claims
\* No zone of a type holds a reference on the lock.
no_zone_holds(lock_number) ==
    /\ \A z \in 0 .. (LogicalZones - 1) :
           get_counter(lock_number, ZONE_TYPE_LOGICAL, z) = 0
    /\ \A z \in 0 .. (PhysicalZones - 1) :
           get_counter(lock_number, ZONE_TYPE_PHYSICAL, z) = 0

\* Both calls of is_locked on the lock return false.
unlocked(lock_number) ==
    /\ ~is_locked(lock_number, ZONE_TYPE_LOGICAL)
    /\ ~is_locked(lock_number, ZONE_TYPE_PHYSICAL)

\* The journal count has been drained and no zone holds a reference.
all_released(lock_number) ==
    /\ journal_counters[lock_number] = journal_decrement_counts[lock_number]
    /\ no_zone_holds(lock_number)

\* C1: in every reachable state, a lock for which is_locked(b, LOGICAL) and
\* is_locked(b, PHYSICAL) are both false has its journal count equal to its
\* decrement count and no logical or physical zone with a non-zero counter
\* for it; and every lock the owner reclaims is in that condition when it is
\* reclaimed.
C1_ReclaimSoundness ==
    /\ [](\A b \in LockNumbers : unlocked(b) => all_released(b))
    /\ [][\A b \in LockNumbers :
             (b \in inUse /\ b \notin inUse') => all_released(b)]_vars

\* C1 witness: a lock in use that zones have held and released from another
\* zone is now unlocked for both zone types.
C1_Witness ==
    \E b \in LockNumbers :
        /\ b \in inUse
        /\ unlocked(b)
        /\ journal_decrement_counts[b] > 0

\* C2: the owner callback is invoked at most once between two calls of
\* acknowledge_unlock; notifying becomes true only by the successful
\* compare-and-swap of attempt_notification and false only by the
\* acknowledge_unlock of the owner's callback.
C2_NotificationCoalescing ==
    /\ [](callbacksSinceAck <= 1 /\ completionQueued <= 1)
    /\ [][(notifying # notifying') =>
             IF notifying'
                 THEN \E t \in Threads :
                          pc[t] = "notify" /\ pc'[t] = "invoke"
                 ELSE /\ pc[JournalThread] = "idle"
                      /\ pc'[JournalThread] = "reap_logical"]_vars

\* C2 witness: a release reaches attempt_notification while a notification
\* is in flight and the owner has been called once.
C2_Witness ==
    /\ notifying
    /\ callbacksSinceAck = 1
    /\ \E t \in Threads : pc[t] = "notify"

\* Thread t's call goes on to attempt_notification in this step.
starts_notification(t) == pc[t] # "notify" /\ pc'[t] = "notify"

\* C3 as stated: a release goes on to notify only when the journal zone, the
\* logical zones and the physical zones have all let go of the lock.
C3_NotifyOnlyWhenAllReleased ==
    [][\A t \in Threads, b \in LockNumbers :
          (starts_notification(t) /\ lock_arg'[t] = b) => (unlocked(b))']_vars

\* C3 amended: a release goes on to notify exactly when it leaves the zone
\* type of the caller without a holder of the lock (the journal zone: the
\* journal count equal to the decrement count), whatever the other zone
\* types hold; a release that leaves a holder of its own type does not.
C3_NotifyWhenOwnTypeReleased ==
    [][\A t \in Threads, b \in LockNumbers :
          /\ (starts_notification(t) /\ lock_arg'[t] = b) =>
                 IF t = JournalThread
                     THEN (~is_journal_zone_locked(b))'
                     ELSE (get_zone_count_ptr(b, t[1]))' = 0
          /\ (pc[t] = "release_add" /\ pc'[t] = "idle" /\ lock_arg[t] = b) =>
                 (get_zone_count_ptr(b, t[1]))' # 0]_vars

\* C3 witness: a logical zone is about to notify while a physical zone still
\* holds the lock.
C3_Witness ==
    \E t \in LogicalThreads :
        /\ pc[t] = "notify"
        /\ logical_zone_counts[lock_arg[t]] = 0
        /\ physical_zone_counts[lock_arg[t]] > 0

\* C4: with the owner looking at the locks after each acknowledge_unlock,
\* a lock in use whose journal, logical and physical references have all
\* been released (the journal count drained, both zone counts zero) is
\* eventually seen unlocked and reclaimed by the owner.
C4_NoLostUnlock ==
    \A b \in LockNumbers :
        (b \in inUse /\ unlocked(b)) ~> (b \notin inUse)

\* C4 witness: the last release of a lock reaches attempt_notification
\* while a notification is in flight, so that its compare-and-swap fails.
C4_Witness ==
    \E t \in Threads :
        /\ pc[t] = "notify"
        /\ notifying
        /\ lock_arg[t] \in inUse
        /\ unlocked(lock_arg[t])

quiescent == \A v \in Vios : data_vios[v].stage = "free"

\* The logical blocks that map to a block.
references_to(pbn) == Cardinality({lbn \in Lbns : block_map[lbn] = pbn})

\* A data VIO that has not yet put its mapping into the block map.
before_put(v) ==
    data_vios[v].stage \in {"waiting", "locked", "agent", "hash_waiting",
                            "journaling", "journaled", "incremented",
                            "decremented"}

\* A data VIO whose new mapping is settled and not yet acknowledged.
settled(v) ==
    /\ data_vios[v].stage \in {"journaling", "journaled", "incremented",
                               "decremented", "mapped"}
    /\ data_vios[v].result = VDO_SUCCESS

\* A data VIO whose slab journal entries are still to be made.
before_slab_journal(v) ==
    data_vios[v].stage \in {"journaled", "incremented"}

C7_ConservationEverySlab ==
    quiescent => \A pbn \in Pbns : reference_counts[pbn] = references_to(pbn)

\* C7 (amended): at every quiescent point the stored reference count of
\* every block of a rebuilt slab equals the number of logical blocks that map
\* to it.
C7_ConservationRebuiltSlabs ==
    quiescent =>
        \A pbn \in Pbns :
            ~is_unrecovered_slab(get_slab(pbn)) =>
                reference_counts[pbn] = references_to(pbn)

\* Every write has been made and acknowledged, and two logical blocks share
\* a block of a rebuilt slab.
C7_Witness ==
    /\ quiescent
    /\ submissions.count = MaxWrites
    /\ \E pbn \in Pbns :
           /\ ~is_unrecovered_slab(get_slab(pbn))
           /\ references_to(pbn) = 2
           /\ reference_counts[pbn] = 2

\* At most one verification read is made for a hash lock.
one_verification ==
    \A data \in 1 .. Fingerprints : hash_locks[data].verifications <= 1

\* The data VIOs in flight with one fingerprint that have settled their new
\* mapping have settled on one block, that of their hash lock, and hold no
\* other allocation.
holders_share_one_block ==
    \A v \in Vios :
        (settled(v) /\ ~is_zero_block(data_vios[v].data)) =>
            /\ data_vios[v].newMapped = hash_locks[data_vios[v].data].pbn
            /\ data_vios[v].allocation \in {ZERO_BLOCK, data_vios[v].newMapped}
            /\ \A w \in Vios :
                   (settled(w) /\ data_vios[w].data = data_vios[v].data) =>
                       data_vios[w].newMapped = data_vios[v].newMapped

\* A block other than the allocation of data VIO v is referenced and holds
\* the data of v: an earlier data VIO allocated it for the same fingerprint.
allocated_by_another(v) ==
    \E pbn \in Pbns \ {data_vios[v].allocation} :
        /\ block_contents[pbn] = data_vios[v].data
        /\ reference_counts[pbn] \in 1 .. MAXIMUM_REFERENCE_COUNT

C9_SameLbnOrder ==
    /\ \A v \in Vios :
           before_put(v) =>
               data_vios[v].ticket > submissions.committed[data_vios[v].lbn]
    /\ quiescent =>
           \A lbn \in Lbns :
               LET last == submissions.last[lbn]
               IN  (last.ticket # 0 /\ submissions.committed[lbn] = last.ticket)
                       => IF is_zero_block(last.data)
                          THEN block_map[lbn] = ZERO_BLOCK
                          ELSE /\ block_map[lbn] # ZERO_BLOCK
                               /\ block_contents[block_map[lbn]] = last.data

\* Two writes were submitted to one logical block, and
\* both have been put and acknowledged.
C9_Witness ==
    /\ quiescent
    /\ submissions.count = 2
    /\ \E lbn \in Lbns :
           /\ submissions.last[lbn].ticket = 2
           /\ submissions.committed[lbn] = 2
           /\ \A other \in Lbns \ {lbn} : submissions.last[other].ticket = 0
           /\ ~is_zero_block(submissions.last[lbn].data)
           /\ block_contents[block_map[lbn]] = submissions.last[lbn].data

\* C10: the recovery journal block that holds the delta of an acknowledged
\* write has been written.
C10_DurableBeforeAck ==
    \A v \in Vios :
        (data_vios[v].stage = "acknowledged"
             /\ data_vios[v].result = VDO_SUCCESS) =>
            /\ data_vios[v].recovery_seq >= 1
            /\ data_vios[v].recovery_seq <= recovery_journal.committed

\* A write has been acknowledged with success.
C10_Witness ==
    \E v \in Vios :
        /\ data_vios[v].stage = "acknowledged"
        /\ data_vios[v].result = VDO_SUCCESS
        /\ data_vios[v].newMapped # ZERO_BLOCK

\* ------------------------------------------------------------- claims of the compression path
\* The call that returned last.
last_call == compress_calls.last

\* A data VIO that is off the compression path for good.
off_path(v) == compress_pc[v] \in {"uncompressed", "set_done", "done",
                                   "compressed"}

\* C11: the compression status of a data VIO moves only forward along
\* VIO_PRE_COMPRESSOR, VIO_COMPRESSING, VIO_PACKING, VIO_POST_PACKER, one
\* status at a time or straight to VIO_POST_PACKER; a data VIO that has
\* reached VIO_POST_PACKER keeps that status and is not on the path again.
C11_StatusMovesForward ==
    [][\A v \in CVios :
           LET old == compression_state[v].status
               new == compression_state'[v].status
           IN  /\ \/ new = old
                  \/ old # VIO_POST_PACKER /\ new = VIO_POST_PACKER
                  \/ old = VIO_PRE_COMPRESSOR /\ new = VIO_COMPRESSING
                  \/ old = VIO_COMPRESSING /\ new = VIO_PACKING
               /\ new = VIO_POST_PACKER =>
                      compress_pc'[v] \in {"uncompressed", "set_done", "done",
                                           "compressed"}]_vars

\* One data VIO has gone through every status and been written compressed,
\* and another has skipped from the compressor to the end of the path.
C11_Witness ==
    \E v, w \in CVios :
        /\ compress_pc[v] = "compressed"
        /\ compression_state[v].status = VIO_POST_PACKER
        /\ compress_pc[w] = "done"
        /\ compression_state[w].may_not_compress
        /\ ~(w \in packer_bin)

\* C12: cancel_compression returns true exactly to the caller that finds
\* the data VIO in VIO_PACKING with may_not_compress clear and sets it; of
\* the calls made for one data VIO at most one returns true.
C12_OneCancellerWins ==
    /\ \A v \in CVios : compress_calls.true_cancels[v] <= 1
    /\ last_call.fn = "cancel_compression" =>
           (last_call.value <=>
                (/\ last_call.state.status = VIO_PACKING
                 /\ ~last_call.state.may_not_compress))

\* A second caller has cancelled a data VIO in the packer that another
\* caller cancelled before it, and was told false.
C12_Witness ==
    /\ last_call.fn = "cancel_compression"
    /\ ~last_call.value
    /\ last_call.state.status = VIO_PACKING
    /\ compress_calls.true_cancels[last_call.vio] = 1

picking_up(c, v) == cancellers[c].pc = "remove" /\ cancellers[c].vio = v

\* C14: may_block_in_packer returns true exactly when it leaves the data
\* VIO in VIO_PACKING, not cancelled; a data VIO blocked in the packer is in
\* VIO_PACKING; a cancelled one has a caller of cancel_compression on its way
\* to fetch it; and a data VIO leaves the bin only when the packer writes the
\* bin or when that caller takes it out.
C14_BlockedIsLookedAfter ==
    /\ [](last_call.fn = "may_block_in_packer" =>
              (last_call.value <=>
                   (/\ last_call.state.status = VIO_COMPRESSING
                    /\ ~last_call.state.may_not_compress)))
    /\ [](\A v \in packer_bin :
              /\ compression_state[v].status = VIO_PACKING
              /\ compression_state[v].may_not_compress =>
                     \E c \in CancelThreads : picking_up(c, v))
    /\ [][\A v \in packer_bin \ packer_bin' :
              \/ packer_bin' = {} /\
                     compression_state'[v].status = VIO_POST_PACKER
              \/ \E c \in CancelThreads :
                     picking_up(c, v) /\ cancellers'[c].pc = "idle"]_vars

\* A data VIO is blocked in the packer, cancelled, and the caller that
\* cancelled it has not yet taken it out.
C14_Witness ==
    \E v \in packer_bin, c \in CancelThreads :
        /\ compression_state[v].may_not_compress
        /\ picking_up(c, v)

\* C15: a data VIO in VIO_PACKING reaches VIO_POST_PACKER.
C15_PackerLiveness ==
    \A v \in CVios :
        (compression_state[v].status = VIO_PACKING)
            ~> (compression_state[v].status = VIO_POST_PACKER)

\* A data VIO is alone in a bin that is not full, and nothing has
\* cancelled it.
C15_Witness ==
    \E v \in CVios :
        /\ packer_bin = {v}
        /\ Cardinality(packer_bin) < BinSlots
        /\ compression_state[v].status = VIO_PACKING
        /\ ~compression_state[v].may_not_compress
        /\ \A w \in CVios \ {v} : off_path(w)

\* ------------------------------------------------------------- claims of the kernel side of a request
\* The bio of the request is a discard that has been completed.
discard_completed == user_bio.kind = DISCARD /\ user_bio.completions > 0

\* Every block of the bio has been taken through the base code by a data
\* VIO.
all_processed == blocks_of(user_bio) \subseteq user_bio.processed

\* C16 (as stated): the bio of a discard is acknowledged only when no block
\* of the discard remains unprocessed.
C16_AcknowledgedWhenDiscardDone == discard_completed => all_processed

\* C16 (amended): the bio of a discard is acknowledged with success only by
\* the data VIO that does the last of the remaining discard (what remains
\* fits in its block), when every block has been processed; it is
\* acknowledged with an error as soon as a block has failed, whatever
\* remains.
C16_AcknowledgedWhenDoneOrFailed ==
    discard_completed =>
        IF user_bio.error = VDO_SUCCESS
            THEN /\ all_processed
                 /\ user_bio.completed_from.remaining_discard
                        <= VDO_BLOCK_SIZE - user_bio.completed_from.offset
            ELSE user_bio.completed_from.result = user_bio.error

\* A discard of three blocks has been acknowledged with success.
C16_Witness ==
    /\ discard_completed
    /\ user_bio.error = VDO_SUCCESS
    /\ Cardinality(blocks_of(user_bio)) >= 3

\* C17: the bio of a request is completed at most once, the data_kvio lets
\* go of the bio when it completes it, and the data_kvio goes back to the pool
\* only with its bio completed, once.
C17_CompletedExactlyOnce ==
    /\ [](/\ user_bio.completions <= 1
          /\ (user_bio.completions = 1) <=>
                 (user_bio.kind # "none" /\ data_kvio.bio = NULL))
    /\ [][(data_kvio.stage # "pool" /\ data_kvio'.stage = "pool") =>
              user_bio'.completions = 1]_vars

\* A data_kvio whose bio was acknowledged early by acknowledgeDataVIO has
\* gone through clean_data_kvio and is back in the pool.
C17_Witness ==
    /\ data_kvio.stage = "pool"
    /\ user_bio.completions = 1
    /\ user_bio.completed_by = "acknowledgeDataVIO"

\* ------------------------------------------------------------- claims of read-only mode
\* The bio of the request is completed in this step.
bio_completes == user_bio.completions = 0 /\ user_bio'.completions = 1

\* The base code takes a write of the request through its block in this step.
write_processed ==
    /\ data_kvio.stage = "request_queue"
    /\ data_kvio'.stage # "request_queue"
    /\ data_kvio.operation # "VIO_READ"

\* In read-only mode nothing more is stored: no block of the device changes
\* and no write of the slab is started.
no_mutation_when_read_only ==
    [][readOnly =>
          /\ kernel_layer'.storage = kernel_layer.storage
          /\ vdo_slab'.journal.writes = vdo_slab.journal.writes
          /\ vdo_slab'.reference_counts.writes
                 = vdo_slab.reference_counts.writes]_vars

\* No read is rejected for the mode of the device.
reads_are_served == user_bio.kind = READ => user_bio.error # VDO_READ_ONLY

\* A drain of the slab that completes in read-only mode finishes with
\* VDO_READ_ONLY, and otherwise with VDO_SUCCESS.
drain_tells_the_mode ==
    [][(is_vdo_state_draining(vdo_slab.state)
            /\ vdo_slab'.state = "ADMIN_STATE_SAVED") =>
           vdo_slab'.result =
               IF readOnly THEN VDO_READ_ONLY ELSE VDO_SUCCESS]_vars

assertion_fails == assertLog' # assertLog

bit_of(value, i) == (value[(i \div 8) + 1] \div (2 ^ (i % 8))) % 2

\* The PBN is below 2^36.
below_2_36(pbn) == \A i \in 36 .. 63 : bit_of(pbn, i) = 0

\* C20: what unpack_block_map_entry gives for the entry that pack_pbn made
\* of a PBN and a mapping state of four bits is the PBN modulo 2^36 (its bits
\* 0 to 35, with nothing above) and the mapping state; it is the PBN itself
\* when that is below 2^36.
C20_EntryRoundTrip ==
    map_unpacked.made =>
        /\ \A i \in 0 .. 63 :
               bit_of(map_unpacked.pbn, i) =
                   IF i < 36 THEN bit_of(map_location.pbn, i) ELSE 0
        /\ map_unpacked.state = map_location.state
        /\ below_2_36(map_location.pbn) => map_unpacked.pbn = map_location.pbn

\* A PBN with bits at and above bit 36, and with bits between 32 and 35,
\* has been packed and unpacked.
C20_Witness ==
    /\ map_unpacked.made
    /\ ~below_2_36(map_location.pbn)
    /\ map_unpacked.pbn[5] = 5
    /\ map_location.pbn[5] = 165
    /\ map_unpacked.state = 15

\* The value of the n bits of a value of eight bytes from bit i up.
bits_of(value, i, n) ==
    LET RECURSIVE sum(_)
        sum(k) == IF k = n THEN 0
                  ELSE (bit_of(value, i + k) * (2 ^ k)) + sum(k + 1)
    IN  sum(0)

\* C21: in the build for either host, the first of the five bytes of the
\* entry pack_pbn makes has the mapping state in its low nibble and bits 32
\* to 35 of the PBN in its high nibble, and the next four bytes are bits 0
\* to 31 of the PBN, the least significant byte first.
C21_EntryByteLayout ==
    map_entry.made =>
        \A host \in Hosts :
            LET bytes == raw(map_entry, host)
            IN  /\ Len(bytes) = 5
                /\ bytes[1] % 16 = map_location.state
                /\ bytes[1] \div 16 = bits_of(map_location.pbn, 32, 4)
                /\ \A i \in 1 .. 4 :
                       bytes[i + 1] = bits_of(map_location.pbn, 8 * (i - 1), 8)

\* An entry has been packed for a PBN with different bits in each nibble of
\* its fifth byte and a mapping state other than those bits.
C21_Witness ==
    /\ map_entry.made
    /\ map_location.pbn[5] = 165
    /\ map_location.pbn[1] = 254
    /\ map_location.state = 3
    /\ raw(map_entry, "big_endian")[1] = 83

step_of_zone(t) ==
    \/ acquire_lock_count_reference_store(t)
    \/ \E lock_number \in LockNumbers :
           release_lock_count_reference(t, lock_number)

\* The step is one of a call that the journal thread makes on the journal
\* zone's counter.
step_of_journal_zone ==
    \E lock_number \in LockNumbers :
        \/ \E value \in 1 .. MaxValue :
               initialize_lock_count(lock_number, value)
        \/ release_journal_zone_reference(lock_number)

done_bios ==
    {served_bios[i] : i \in 1 .. Len(served_bios)}
        \cup (IF user_bio.completions >= 1 THEN {user_bio} ELSE {})

\* The read_block has failed and its callback has been called.
read_block_failed ==
    /\ read_block.status # VDO_SUCCESS
    /\ data_kvio.stage \in {"callback", "ack_then_complete", "releaser"}

\* C24 (as stated): a read of a compressed mapping whose fragment is not
\* found or does not uncompress to a block has its error as the result of
\* the data VIO, and its bio has been given no data.
C24_FailedReadCopiesNothing ==
    /\ read_block_failed => data_kvio.result = read_block.status
    /\ \A bio \in done_bios :
           bio.error = VDO_INVALID_FRAGMENT => bio.copied = "none"

\* C24 (what holds): a read of a compressed mapping that fails has its error
\* as the result of the data VIO and of its bio, a fragment that does not
\* uncompress to a block gives VDO_INVALID_FRAGMENT, the bio of a read of a
\* whole block is given no data, the bio of a read that succeeds is given
\* the uncompressed block, and the device is not put in read-only mode.
C24_FailedReadFailsTheBio ==
    /\ read_block_failed => data_kvio.result = read_block.status
    /\ read_block.status \in {VDO_SUCCESS, EIO, VDO_INVALID_FRAGMENT}
    /\ \A bio \in done_bios :
           /\ bio.completions = 1
           /\ bio.error = bio.completed_from.result
           /\ (bio.error # VDO_SUCCESS /\ ~bio.completed_from.isPartial) =>
                  bio.copied = "none"
           /\ bio.error = VDO_SUCCESS => bio.copied = "scratch_block"
    /\ ~readOnly

\* A read whose fragment did not uncompress has failed with
\* VDO_INVALID_FRAGMENT, and the read submitted after it has been served
\* with the uncompressed block.
C24_Witness ==
    /\ Len(served_bios) = 1
    /\ served_bios[1].error = VDO_INVALID_FRAGMENT
    /\ served_bios[1].copied = "none"
    /\ user_bio.completions = 1
    /\ user_bio.error = VDO_SUCCESS
    /\ user_bio.copied = "scratch_block"

\* ------------------------------------------------------------- claims of the slab
\* C25: an operation asked of a slab that is not a drain, a load or a
\* resume is finished with VDO_INVALID_ADMIN_STATE, and leaves the status of
\* the slab, its journal, its reference counts and the queue it is in as
\* they were.
C25_OtherOperationRejected ==
    [][\A operation \in OtherOperations :
           start_slab_action(operation) =>
               /\ vdo_slab'.result = VDO_INVALID_ADMIN_STATE
               /\ vdo_slab'.status = vdo_slab.status
               /\ vdo_slab'.journal = vdo_slab.journal
               /\ vdo_slab'.reference_counts = vdo_slab.reference_counts
               /\ vdo_slab'.queue = vdo_slab.queue
               /\ vdo_slab'.allocations = vdo_slab.allocations]_vars

\* The initiator has finished an operation that is none of the three, on a
\* slab that is in the priority table with a dirty journal.
C25_Witness ==
    /\ vdo_slab.operation = "ADMIN_STATE_FORMATTING"
    /\ vdo_slab.result = VDO_INVALID_ADMIN_STATE
    /\ vdo_slab.state = "ADMIN_STATE_NORMAL_OPERATION"
    /\ vdo_slab.queue = "priority_table"
    /\ vdo_slab.journal.dirty

OperationPbns == ZERO_BLOCK .. (SlabCount * SlabBlocks + 1)

\* The sequence numbers of the slab journal blocks an entry may be in.
EntrySequenceNumbers == 1 .. (SlabJournalSize + 1)

\* (mutant) a PBN out of range is taken for the zero block.
get_slab_enters_read_only_never(pbn) == FALSE

\* ---- get_slab(depot, pbn): "Will put the VDO in read-only mode if the PBN
\* ---- is not a valid data block nor the zero block."
get_slab_enters_read_only(pbn) == pbn # ZERO_BLOCK /\ pbn \notin Pbns

\* An entry is added to the block of a slab journal: the block gains the
\* entry's lock, which modify_slab_reference_count is later called with.
LockSlabJournalBlock(slab, sequence_number) ==
    /\ slab_journals[slab].locks[sequence_number % SlabJournalSize] < MaxRefs
    /\ slab_journals' =
           adjust_slab_journal_block_reference(slab_journals, slab,
                                               sequence_number, 1)
    /\ UNCHANGED <<data_vios, logical_locks, hash_locks, dedupe_index,
                   block_map, dirty_pages, reference_counts, free_blocks,
                   block_contents, slab_status, journaled_counts,
                   recovery_journal, submissions>>
    /\ UNCHANGED <<lockVars, threadVars, ownerVars, laterVars>>

\* modify_slab_reference_count(get_slab(depot, pbn), journal_point,
\* operation), for an entry of the block of the journal point.
ModifyReference(pbn, type, sequence_number) ==
    LET slab == get_slab(pbn)
        modified == modify_slab_reference_count(
                        slab, [sequence_number |-> sequence_number],
                        [type |-> type, pbn |-> pbn],
                        reference_counts, free_blocks, slab_journals)
    IN  /\ slab # NULL =>
               slab_journals[slab].locks[sequence_number % SlabJournalSize] > 0
        /\ (slab # NULL /\ is_increment_operation(type)) =>
               reference_counts[pbn] < MaxRefs
        /\ reference_counts' = modified.reference_counts
        /\ free_blocks' = modified.free_blocks
        /\ slab_journals' = modified.slab_journals
        /\ readOnly' = (readOnly \/ get_slab_enters_read_only(pbn)
                                 \/ modified.result # VDO_SUCCESS)
        /\ reference_call' =
               [made |-> TRUE, pbn |-> pbn, type |-> type,
                sequence_number |-> sequence_number, slab |-> slab,
                unrecovered |-> slab # NULL /\ is_unrecovered_slab(slab),
                result |-> modified.result,
                has_provisional_reference |-> FALSE,
                had_provisional_reference |-> FALSE]
        /\ UNCHANGED <<data_vios, logical_locks, hash_locks, dedupe_index,
                       block_map, dirty_pages, block_contents, slab_status,
                       journaled_counts, recovery_journal, submissions>>
        /\ UNCHANGED <<lockVars, threadVars, inUse, reapedLogical,
                       callbacksSinceAck, observedUnderflow, assertLog,
                       compressVars, kvioVars, slabVars, entryVars>>

NextModify ==
    \/ \E slab \in Slabs, sequence_number \in EntrySequenceNumbers :
           LockSlabJournalBlock(slab, sequence_number)
    \/ \E pbn \in OperationPbns, type \in {DATA_INCREMENT, DATA_DECREMENT},
          sequence_number \in EntrySequenceNumbers :
           ModifyReference(pbn, type, sequence_number)

SpecModify == InitWrite /\ [][NextModify]_vars

\* What modify_slab_reference_count may change.
reference_state == <<reference_counts, free_blocks, slab_journals>>

\* C27: a reference-count modification addressed to the zero block returns
\* success and changes no reference count, no free-block count and no
\* slab-journal lock, and does not put the VDO into read-only mode; one
\* addressed to a PBN that is neither the zero block nor a data block changes
\* none of them either and puts the VDO into read-only mode.
C27_ZeroBlockIsNoOp ==
    [][\A pbn \in OperationPbns, type \in {DATA_INCREMENT, DATA_DECREMENT},
          sequence_number \in EntrySequenceNumbers :
           (ModifyReference(pbn, type, sequence_number) /\ get_slab(pbn) = NULL) =>
               /\ reference_call'.result = VDO_SUCCESS
               /\ reference_state' = reference_state
               /\ pbn = ZERO_BLOCK => readOnly' = readOnly
               /\ pbn # ZERO_BLOCK => readOnly']_vars

\* A modification addressed to the zero block has been made of a device that
\* holds references and entry locks, and it is not in read-only mode.
C27_Witness ==
    /\ reference_call.made
    /\ reference_call.pbn = ZERO_BLOCK
    /\ reference_call.result = VDO_SUCCESS
    /\ ~readOnly
    /\ \E pbn \in Pbns : reference_counts[pbn] > 0
    /\ \E slab \in Slabs : slab_journals[slab].locks[1] > 0

\* The call is made of a slab that is unrecovered.
modifies_unrecovered_slab(pbn, type, sequence_number) ==
    /\ ModifyReference(pbn, type, sequence_number)
    /\ get_slab(pbn) # NULL
    /\ is_unrecovered_slab(get_slab(pbn))

zones_holding(counters, zones, lock_number) ==
    Cardinality({zone_id \in 0 .. (zones - 1) :
                    counters[zone_counter(lock_number, zone_id)] # 0})

\* No acquire is between its atomicAdd32 and its store, and no release
\* between its store and its atomicAdd32.
no_call_part_way ==
    \A t \in ZoneThreads : pc[t] \notin {"acquire_store", "release_add"}

\* Each zone-type total of each lock is the number of zones of the type that
\* hold the lock.
zone_totals_consistent ==
    \A lock_number \in LockNumbers :
        /\ logical_zone_counts[lock_number] =
               zones_holding(logical_counters, LogicalZones, lock_number)
        /\ physical_zone_counts[lock_number] =
               zones_holding(physical_counters, PhysicalZones, lock_number)

\* C29: whenever no acquire or release call is part-way through, for every
\* lock the atomic logical_zone_counts equals the number of logical zones
\* whose counter for it is non-zero, and likewise physical_zone_counts; the
\* total of the caller's zone type goes up by one exactly in an acquire that
\* finds the zone's counter at 0, goes down by one exactly in a release that
\* takes the zone's counter from 1 to 0, and changes in no other step.
C29_ZoneTotalConsistency ==
    [][/\ no_call_part_way' => zone_totals_consistent'
       /\ \A t \in ZoneThreads, lock_number \in LockNumbers :
              LET total == get_zone_count_ptr(lock_number, t[1])
                  current_value == get_counter(lock_number, t[1], t[2])
              IN  /\ acquire_lock_count_reference(t, lock_number) =>
                         (get_zone_count_ptr(lock_number, t[1]))' =
                             total + (IF current_value = 0 THEN 1 ELSE 0)
                  /\ release_lock_count_reference(t, lock_number) =>
                         /\ (get_zone_count_ptr(lock_number, t[1]))' = total
                         /\ (pc'[t] = "release_add") <=> (current_value = 1)
                  /\ (release_lock_count_reference_add(t)
                          /\ lock_arg[t] = lock_number) =>
                         /\ current_value = 0
                         /\ (get_zone_count_ptr(lock_number, t[1]))' = total - 1
       /\ \A lock_number \in LockNumbers :
              (\/ logical_zone_counts'[lock_number] #
                      logical_zone_counts[lock_number]
               \/ physical_zone_counts'[lock_number] #
                      physical_zone_counts[lock_number]) =>
                  \E t \in ZoneThreads :
                      \/ acquire_lock_count_reference(t, lock_number)
                      \/ release_lock_count_reference_add(t)]_vars

\* Both logical zones and the physical zone hold the lock, one logical zone
\* with two references, and no call is part-way through: the logical total
\* is 2, not the 3 references held.
C29_Witness ==
    /\ no_call_part_way
    /\ logical_counters[zone_counter(0, 0)] = 2
    /\ logical_counters[zone_counter(0, 1)] = 1
    /\ logical_zone_counts[0] = 2
    /\ physical_zone_counts[0] = 1
    /\ journal_decrement_counts[0] > 0

\* Of the counters and totals of the lock counter, the step changes at most
\* the counter of thread t's zone for the lock.
changes_only_own_counter(t, lock_number) ==
    /\ UNCHANGED <<journal_counters, journal_decrement_counts,
                   logical_zone_counts, physical_zone_counts, notifying,
                   completionQueued>>
    /\ \A i \in DOMAIN logical_counters :
           (t[1] # ZONE_TYPE_LOGICAL \/ i # zone_counter(lock_number, t[2])) =>
               logical_counters'[i] = logical_counters[i]
    /\ \A i \in DOMAIN physical_counters :
           (t[1] # ZONE_TYPE_PHYSICAL \/ i # zone_counter(lock_number, t[2])) =>
               physical_counters'[i] = physical_counters[i]

\* Thread t's release of the lock ends in this step without a notification.
release_ends_quietly(t, lock_number) ==
    /\ pc'[t] = "idle"
    /\ \/ release_lock_count_reference(t, lock_number)
       \/ release_lock_count_reference_add(t) /\ lock_arg[t] = lock_number

\* C30 as stated: a release attempts a notification only when it has taken
\* the zone's counter and the total of the zone's type to zero, and every
\* release that ends without attempting one has changed only the caller's
\* counter.
C30_OtherReleasesChangeOnlyTheCounter ==
    [][\A t \in ZoneThreads, lock_number \in LockNumbers :
          /\ (starts_notification(t) /\ lock_arg'[t] = lock_number) =>
                 /\ (get_counter(lock_number, t[1], t[2]))' = 0
                 /\ (get_zone_count_ptr(lock_number, t[1]))' = 0
          /\ release_ends_quietly(t, lock_number) =>
                 changes_only_own_counter(t, lock_number)]_vars

\* C30 (amended): a release that leaves the zone's counter non-zero changes
\* only that counter and ends; one that takes it to zero goes on to subtract
\* one from the total of the zone's type, changing nothing else, and attempts
\* a notification iff the total becomes zero; a zone thread attempts a
\* notification in no other step.
C30_NotifiesIffLastOfType ==
    [][\A t \in ZoneThreads, lock_number \in LockNumbers :
          LET total == get_zone_count_ptr(lock_number, t[1])
          IN  /\ release_lock_count_reference(t, lock_number) =>
                     /\ changes_only_own_counter(t, lock_number)
                     /\ (get_counter(lock_number, t[1], t[2]))' =
                            get_counter(lock_number, t[1], t[2]) - 1
                     /\ IF (get_counter(lock_number, t[1], t[2]))' = 0
                            THEN pc'[t] = "release_add"
                            ELSE pc'[t] = "idle"
              /\ (release_lock_count_reference_add(t)
                      /\ lock_arg[t] = lock_number) =>
                     /\ (get_zone_count_ptr(lock_number, t[1]))' = total - 1
                     /\ UNCHANGED <<journal_counters, journal_decrement_counts,
                                    logical_counters, physical_counters,
                                    notifying, completionQueued>>
                     /\ IF total - 1 = 0
                            THEN pc'[t] = "notify"
                            ELSE pc'[t] = "idle"
              /\ starts_notification(t) => release_lock_count_reference_add(t)]_vars

\* A logical zone has dropped its counter to zero while the other logical
\* zone holds the lock, and is about to take the total from 2 to 1; the
\* physical zone, the last of its type, is about to attempt a notification.
C30_Witness ==
    \E t \in LogicalThreads, u \in PhysicalThreads :
        /\ pc[t] = "release_add"
        /\ logical_zone_counts[lock_arg[t]] = 2
        /\ pc[u] = "notify"
        /\ physical_zone_counts[lock_arg[u]] = 0

\* C31: release_journal_zone_reference_from_other_zone adds one to the
\* decrement count of the lock and to no other; the journal counters, the
\* counters of every zone, the zone-type totals and the notifying flag are
\* unchanged, no callback is queued and the caller attempts no notification,
\* also when the release leaves the journal zone unlocked.
C31_FromOtherZoneOnlyCounts ==
    [][\A t \in ZoneThreads, lock_number \in LockNumbers :
          ReleaseJournalFromOtherZone(t, lock_number) =>
              /\ journal_decrement_counts' =
                     [journal_decrement_counts EXCEPT
                         ![lock_number] = @ + 1]
              /\ UNCHANGED <<journal_counters, logical_counters,
                             physical_counters, logical_zone_counts,
                             physical_zone_counts, notifying,
                             completionQueued, callbacksSinceAck>>
              /\ pc'[t] = "idle"]_vars

\* A release from another zone has left the journal zone of a lock in use
\* unlocked, and no notification has been attempted: the flag is clear, no
\* callback is queued and every thread is idle.
C31_Witness ==
    \E lock_number \in LockNumbers :
        /\ lock_number \in inUse
        /\ journal_decrement_counts[lock_number] = MaxValue
        /\ ~is_journal_zone_locked(lock_number)
        /\ ~notifying
        /\ completionQueued = 0
        /\ callbacksSinceAck = 0
        /\ \A t \in Threads : pc[t] = "idle"

C33_InitializeStartsAfresh ==
    [][\A b \in LockNumbers :
          /\ \A value \in 1 .. MaxValue :
                 initialize_lock_count(b, value) =>
                     /\ b \notin inUse
                     /\ journal_counters[b] = journal_decrement_counts[b]
                     /\ journal_counters'[b] = value
                     /\ assertLog' = assertLog
          /\ (/\ pc[JournalThread] = "init_store"
              /\ pc'[JournalThread] = "init_store"
              /\ lock_arg[JournalThread] = b) =>
                 journal_counters'[b] = journal_counters[b]
          /\ (initialize_lock_count_store /\ lock_arg[JournalThread] = b) =>
                 /\ journal_counters'[b] = journal_counters[b]
                 /\ journal_decrement_counts'[b] = 0
                 /\ (is_journal_zone_locked(b))' <=> journal_counters'[b] # 0
                 /\ b \in inUse']_vars

\* The lock is being initialized for a second use: the new journal count is
\* stored, the decrement count still holds the releases of the previous use,
\* and a release from another zone has arrived on top of them.
C33_Witness ==
    /\ pc[JournalThread] = "init_store"
    /\ journal_counters[lock_arg[JournalThread]] = 1
    /\ journal_decrement_counts[lock_arg[JournalThread]] > MaxValue
    /\ lock_arg[JournalThread] \notin inUse

\* ------------------------------------------------------------- claims of the discard chain
\* The bytes of block lbn that the discard of the bio covers.
covered_bytes(bio, lbn) ==
    LET first_byte == (bio.block * VDO_BLOCK_SIZE) + bio.offset
        end_byte == first_byte + bio.size
        block_start == lbn * VDO_BLOCK_SIZE
        from == IF first_byte > block_start THEN first_byte ELSE block_start
        to == min(end_byte, block_start + VDO_BLOCK_SIZE)
    IN  to - from

\* The bytes of the discard from its part of block lbn on.
bytes_from(bio, lbn) ==
    LET first_byte == (bio.block * VDO_BLOCK_SIZE) + bio.offset
        block_start == lbn * VDO_BLOCK_SIZE
    IN  (first_byte + bio.size)
            - (IF first_byte > block_start THEN first_byte ELSE block_start)

\* ceil((offset + size) / VDO_BLOCK_SIZE)
blocks_to_discard(bio) ==
    (bio.offset + bio.size + VDO_BLOCK_SIZE - 1) \div VDO_BLOCK_SIZE

\* The data_kvio is working on a block of the discard.
discarding_a_block ==
    /\ user_bio.kind = DISCARD
    /\ data_kvio.stage \in {"request_queue", "acknowledge", "bio_ack_queue",
                            "callback"}

\* C34: while the data VIO of a discard of S > 0 bytes at in-block offset o
\* works on a block, that block is the next of the consecutive blocks of the
\* bio, every block before it has been processed, remaining_discard is what
\* the discard covers from this block on (never negative), the offset is o
\* for the first block and 0 for every later one, and the operation is a
\* read-modify-write iff the block is partially covered; a chain that ends
\* without an error ends with remaining_discard = 0 and exactly
\* ceil((o + S) / VDO_BLOCK_SIZE) blocks processed.
C34_DiscardChainProgression ==
    /\ discarding_a_block =>
           /\ data_kvio.lbn \in blocks_of(user_bio)
           /\ user_bio.block .. (data_kvio.lbn - 1) \subseteq user_bio.processed
           /\ user_bio.processed \subseteq user_bio.block .. data_kvio.lbn
           /\ data_kvio.remaining_discard = bytes_from(user_bio, data_kvio.lbn)
           /\ data_kvio.remaining_discard > 0
           /\ data_kvio.offset =
                  (IF data_kvio.lbn = user_bio.block THEN user_bio.offset ELSE 0)
           /\ (data_kvio.operation = "VIO_READ_MODIFY_WRITE") <=>
                  (covered_bytes(user_bio, data_kvio.lbn) < VDO_BLOCK_SIZE)
           /\ data_kvio.operation \in {"VIO_READ_MODIFY_WRITE", "VIO_WRITE"}
    /\ (/\ user_bio.kind = DISCARD
        /\ data_kvio.stage \in {"ack_then_complete", "releaser", "pool"}) =>
           /\ data_kvio.remaining_discard >= 0
           /\ data_kvio.result = VDO_SUCCESS =>
                  /\ data_kvio.remaining_discard = 0
                  /\ user_bio.processed = blocks_of(user_bio)
                  /\ Cardinality(user_bio.processed) = blocks_to_discard(user_bio)

\* A discard that starts in the middle of a block and ends in the middle of
\* another, three blocks in all, has ended without an error.
C34_Witness ==
    /\ user_bio.kind = DISCARD
    /\ user_bio.offset > 0
    /\ (user_bio.offset + user_bio.size) % VDO_BLOCK_SIZE # 0
    /\ data_kvio.stage = "releaser"
    /\ data_kvio.result = VDO_SUCCESS
    /\ data_kvio.remaining_discard = 0
    /\ Cardinality(user_bio.processed) = 3

\* A block of the discard has completed with a result other than success.
discard_has_failed == user_bio.kind = DISCARD /\ data_kvio.result # VDO_SUCCESS

\* C35: once a block of a discard has completed with an error, no further
\* block is prepared, enqueued or processed and the error is kept;
\* kvdo_continue_discard_kvio then completes the data VIO in the same step,
\* giving up the discard permit, whatever remains of the discard; and the bio
\* is completed with that error.
C35_FailedDiscardSkipsTheRest ==
    [][discard_has_failed =>
           /\ data_kvio'.lbn = data_kvio.lbn
           /\ data_kvio'.stage # "request_queue"
           /\ data_kvio'.result = data_kvio.result
           /\ user_bio'.processed = user_bio.processed
           /\ kvdo_continue_discard_kvio =>
                  /\ data_kvio'.stage \in {"ack_then_complete", "releaser"}
                  /\ ~data_kvio'.hasDiscardPermit
           /\ bio_completes => user_bio'.error = data_kvio.result]_vars

\* The first block of a discard of three blocks found no space: the bio has
\* been completed with that error, only the first block was processed, and
\* the data_kvio is back in the pool with the rest of the discard not done.
C35_Witness ==
    /\ user_bio.kind = DISCARD
    /\ Cardinality(blocks_of(user_bio)) = 3
    /\ user_bio.processed = {user_bio.block}
    /\ user_bio.completions = 1
    /\ user_bio.error = VDO_NO_SPACE
    /\ data_kvio.stage = "pool"
    /\ data_kvio.remaining_discard > 0
    /\ kernel_layer.discard_limiter = 0

\* ------------------------------------------------------------- claims of the admission permits
\* The request holds a permit of the request limiter.
request_in_flight == data_kvio.stage # "pool"

\* The request holds a permit of the discard limiter.
discard_permit_held == request_in_flight /\ data_kvio.hasDiscardPermit

\* C36: the permits out of each limiter are those of the request in flight:
\* one of the request limiter from the launch until the data_kvio is back in
\* the pool, one of the discard limiter for a discard launched with a permit
\* until its chain ends; a launch that fails leaves both limiters as they
\* were before the bio was admitted; the discard permit is given back by the
\* call of kvdo_continue_discard_kvio that completes the data VIO and by no
\* other step, the request permit by return_data_kvio_batch_to_pool and by
\* no other step.
C36_PermitsConserved ==
    [][/\ kernel_layer'.request_limiter =
              (IF request_in_flight' THEN 1 ELSE 0)
       /\ kernel_layer'.discard_limiter =
              (IF discard_permit_held' THEN 1 ELSE 0)
       /\ kernel_layer'.request_limiter < kernel_layer.request_limiter =>
              return_data_kvio_batch_to_pool
       /\ kernel_layer'.discard_limiter < kernel_layer.discard_limiter =>
              /\ kvdo_continue_discard_kvio
              /\ data_kvio'.stage \in {"ack_then_complete", "releaser"}
              /\ data_kvio.result # VDO_SUCCESS
                     \/ data_kvio'.remaining_discard = 0
       /\ kernel_layer'.allocation_failures # kernel_layer.allocation_failures =>
              /\ kernel_layer'.request_limiter = kernel_layer.request_limiter
              /\ kernel_layer'.discard_limiter = kernel_layer.discard_limiter]_vars

\* After a discard admitted with a discard permit found no data_kvio, a
\* discard of three blocks launched with a permit has failed at its first
\* block and is back in the pool: no permit is out.
C36_Witness ==
    /\ kernel_layer.allocation_failures > 0
    /\ user_bio.kind = DISCARD
    /\ Cardinality(blocks_of(user_bio)) = 3
    /\ user_bio.error = VDO_NO_SPACE
    /\ user_bio.completions = 1
    /\ data_kvio.stage = "pool"
    /\ kernel_layer.request_limiter = 0
    /\ kernel_layer.discard_limiter = 0

\* ------------------------------------------------------------- Part 9: the compression of a block
\* What LZ4_compress_ctx_limitedOutput returns for a block and an output
\* limit of VDO_BLOCK_SIZE: 0 when the output does not fit, or its size.
LZ4CompressedSizes == 0 .. VDO_BLOCK_SIZE

\* The base code takes a data_vio that writes data as far as the compressor:
\* a write or a read-modify-write, not a trim.
ReachCompressor ==
    /\ data_kvio.stage = "request_queue"
    /\ data_kvio.operation # "VIO_READ"
    /\ ~(user_bio.kind = DISCARD /\ ~data_kvio.isPartial)
    /\ data_kvio' = [data_kvio EXCEPT !.stage = "compress"]
    /\ UNCHANGED <<user_bio, kernel_layer>>
    /\ outside_kvio
    /\ outside_read

\* (mutant) every data_vio is sent to the compressor.
compressDataVIO_of_any_bio ==
    /\ data_kvio.stage = "compress"
    /\ data_kvio' = [data_kvio EXCEPT !.stage = "cpu_queue_compress"]
    /\ UNCHANGED <<user_bio, kernel_layer>>
    /\ outside_kvio
    /\ outside_read

\* compressDataVIO: a data_vio of a discard with some of the discard
\* remaining is given the size of uncompressible data and its callback is
\* enqueued; any other goes to the CPU queue for kvdo_compress_work.
compressDataVIO ==
    /\ data_kvio.stage = "compress"
    /\ data_kvio' =
           IF is_discard_bio(data_kvio.bio) /\ (data_kvio.remaining_discard > 0)
               THEN [data_kvio EXCEPT
                        !.compression.size = VDO_BLOCK_SIZE + 1,
                        !.stage = "compress_callback"]
               ELSE [data_kvio EXCEPT !.stage = "cpu_queue_compress"]
    /\ UNCHANGED <<user_bio, kernel_layer>>
    /\ outside_kvio
    /\ outside_read

\* kvdo_compress_work: the size LZ4 returns, if positive, is the compression
\* size, and otherwise the block size plus one; the callback is enqueued.
kvdo_compress_work(size) ==
    /\ data_kvio.stage = "cpu_queue_compress"
    /\ data_kvio' =
           [data_kvio EXCEPT
                !.compression.size =
                    IF size > 0 THEN size ELSE VDO_BLOCK_SIZE + 1,
                !.stage = "compress_callback"]
    /\ UNCHANGED <<user_bio, kernel_layer>>
    /\ outside_kvio
    /\ outside_read

\* The callback of the compression: a result smaller than a block enters the
\* packer, any other is written as it is.
PackOrWrite ==
    /\ data_kvio.stage = "compress_callback"
    /\ data_kvio' =
           [data_kvio EXCEPT
                !.stage = IF data_kvio.compression.size < VDO_BLOCK_SIZE
                              THEN "packer" ELSE "write_uncompressed"]
    /\ UNCHANGED <<user_bio, kernel_layer>>
    /\ outside_kvio
    /\ outside_read

NextCompressWork ==
    \/ \E kind \in {READ, WRITE}, offset \in 0 .. (VDO_BLOCK_SIZE - 1) :
           \E size \in 1 .. (VDO_BLOCK_SIZE - offset) :
               kvdo_launch_data_kvio_from_bio(kind, 0, offset, size, FALSE)
    \/ \E offset \in 0 .. (VDO_BLOCK_SIZE - 1), size \in 1 .. MaxBioSize,
          has_discard_permit \in BOOLEAN :
           kvdo_launch_data_kvio_from_bio(DISCARD, 0, offset, size,
                                          has_discard_permit)
    \/ ReachCompressor
    \/ compressDataVIO
    \/ \E size \in LZ4CompressedSizes : kvdo_compress_work(size)
    \/ PackOrWrite

SpecCompressWork == InitKvioPath /\ [][NextCompressWork]_vars

\* The data_vio is of a discard of which some remains.
discard_in_progress ==
    user_bio.kind = DISCARD /\ data_kvio.remaining_discard > 0

\* C37: compressDataVIO gives a data_vio of a discard with some of the
\* discard remaining the compression size VDO_BLOCK_SIZE + 1 and enqueues its
\* callback, so that it is never on the CPU queue for the compressor and
\* never in the packer; for any other data_vio kvdo_compress_work makes the
\* compression size the size the compressor returns when that is positive and
\* VDO_BLOCK_SIZE + 1 otherwise; and a data_vio in the packer has a
\* compression size that is positive and smaller than VDO_BLOCK_SIZE.
C37_OnlyCompressedDataIsPacked ==
    [][/\ (compressDataVIO /\ discard_in_progress) =>
              /\ data_kvio'.compression.size = VDO_BLOCK_SIZE + 1
              /\ data_kvio'.stage = "compress_callback"
       /\ (compressDataVIO /\ ~discard_in_progress) =>
              /\ data_kvio'.compression.size = data_kvio.compression.size
              /\ data_kvio'.stage = "cpu_queue_compress"
       /\ data_kvio'.stage \in {"cpu_queue_compress", "packer"} =>
              ~discard_in_progress'
       /\ \A size \in LZ4CompressedSizes :
              kvdo_compress_work(size) =>
                  data_kvio'.compression.size =
                      (IF size > 0 THEN size ELSE VDO_BLOCK_SIZE + 1)
       /\ data_kvio'.stage = "packer" =>
              /\ data_kvio'.compression.size > 0
              /\ data_kvio'.compression.size < VDO_BLOCK_SIZE]_vars

\* The first block of a discard that goes on to other blocks, written as a
\* read-modify-write, has been through compressDataVIO and is written
\* uncompressed, with the size that stands for uncompressible data.
C37_Witness ==
    /\ user_bio.kind = DISCARD
    /\ data_kvio.isPartial
    /\ data_kvio.remaining_discard > VDO_BLOCK_SIZE
    /\ data_kvio.stage = "write_uncompressed"
    /\ data_kvio.compression.size = VDO_BLOCK_SIZE + 1

\* ------------------------------------------------------------- the advice of the deduplication index
\* The agent v of a hash lock that has not been to the index calls
\* checkForDuplication.
checks_for_duplication(v) ==
    AgentResolve(v) /\ ~hash_locks[data_vios[v].data].queried

\* C38: checkForDuplication posts advice if and only if the data VIO has an
\* allocation; for a data VIO with none it only asks for advice, and the
\* index is as it was; and no data VIO that writes zeros or discards (its new
\* mapping is no block) comes to checkForDuplication.
C38_PostsOnlyWithAllocation ==
    [][\A v \in Vios :
           checks_for_duplication(v) =>
               LET data_vio == data_vios[v]
                   checked == checkForDuplication(data_vio, dedupe_index)
               IN  /\ checked.posted <=> hasAllocation(data_vio)
                   /\ checked.advice = dedupe_index[data_vio.data]
                   /\ ~hasAllocation(data_vio) =>
                          /\ checked.index = dedupe_index
                          /\ dedupe_index' = dedupe_index
                   /\ (hasAllocation(data_vio)
                       /\ dedupe_index[data_vio.data] = ZERO_BLOCK) =>
                          checked.index[data_vio.data] = data_vio.allocation
                   /\ ~is_zero_block(data_vio.data)]_vars

\* A data VIO that found no block to write to has asked the index, found no
\* duplicate, and failed for want of space, the index being still empty for
\* its data.
C38_Witness ==
    \E v \in Vios :
        /\ data_vios[v].result = VDO_NO_SPACE
        /\ data_vios[v].stage = "mapped"
        /\ ~is_zero_block(data_vios[v].data)
        /\ ~hasAllocation(data_vios[v])
        /\ dedupe_index[data_vios[v].data] = ZERO_BLOCK

\* ------------------------------------------------------------- Part 10: provisional references
\* The PBN lock of a block has a provisional reference: the lock the last
\* call was made for, if it was for this block.
lock_has_provisional_reference(pbn) ==
    reference_call.pbn = pbn /\ reference_call.has_provisional_reference

\* The slab journal block the entries of this part are made in.
ProvisionalEntryBlock == 1

\* A call of acquire_provisional_reference for the PBN lock of a block.
AcquireProvisionalReference(pbn, reports_existing) ==
    LET slab == get_slab(pbn)
        held == lock_has_provisional_reference(pbn)
        acquired == acquire_provisional_reference(
                        slab, pbn, held, reports_existing)
    IN  /\ reference_counts' = acquired.reference_counts
        /\ free_blocks' = acquired.free_blocks
        /\ reference_call' =
               [made |-> TRUE, pbn |-> pbn, type |-> "provisional",
                sequence_number |-> 0, slab |-> slab,
                unrecovered |-> is_unrecovered_slab(slab),
                result |-> acquired.result,
                has_provisional_reference |->
                    acquired.has_provisional_reference,
                had_provisional_reference |-> held]
        /\ UNCHANGED <<data_vios, logical_locks, hash_locks, dedupe_index,
                       block_map, dirty_pages, block_contents, slab_status,
                       slab_journals, journaled_counts, recovery_journal,
                       submissions>>
        /\ UNCHANGED <<lockVars, threadVars, ownerVars,
                       compressVars, kvioVars, slabVars, entryVars>>

\* The PBN lock that has a provisional reference gives it back.
ReleaseProvisionalReference(pbn) ==
    LET released == release_provisional_reference(
                        reference_counts, free_blocks, pbn)
    IN  /\ lock_has_provisional_reference(pbn)
        /\ reference_counts' = released.reference_counts
        /\ free_blocks' = released.free_blocks
        /\ reference_call' = no_modification
        /\ UNCHANGED <<data_vios, logical_locks, hash_locks, dedupe_index,
                       block_map, dirty_pages, block_contents, slab_status,
                       slab_journals, journaled_counts, recovery_journal,
                       submissions>>
        /\ UNCHANGED <<lockVars, threadVars, ownerVars,
                       compressVars, kvioVars, slabVars, entryVars>>

NextProvisional ==
    \/ \E pbn \in Pbns, reports_existing \in BOOLEAN :
           AcquireProvisionalReference(pbn, reports_existing)
    \/ \E pbn \in Pbns : ReleaseProvisionalReference(pbn)
    \/ \E slab \in Slabs : LockSlabJournalBlock(slab, ProvisionalEntryBlock)
    \/ \E pbn \in Pbns, type \in {DATA_INCREMENT, DATA_DECREMENT} :
           ModifyReference(pbn, type, ProvisionalEntryBlock)

SpecProvisional == InitWrite /\ [][NextProvisional]_vars

\* C39: a call of acquire_provisional_reference for a lock that has a
\* provisional reference already changes neither the reference counts nor
\* the free block counts and succeeds; for a lock that has none, the free
\* block count of the slab goes down by one if the call succeeds and the lock
\* has the provisional reference afterwards, and stays as it was in every
\* other case, a failure of provisionally_reference_block being returned as
\* the result.
C39_ProvisionalReferenceCountedOnce ==
    [][\A pbn \in Pbns, reports_existing \in BOOLEAN :
           AcquireProvisionalReference(pbn, reports_existing) =>
               LET slab == get_slab(pbn)
                   held == lock_has_provisional_reference(pbn)
                   referenced == provisionally_reference_block(
                                     reference_counts, pbn, reports_existing)
                   obtained == reference_call'.has_provisional_reference
                   result == reference_call'.result
               IN  /\ held =>
                          /\ result = VDO_SUCCESS
                          /\ obtained
                          /\ reference_counts' = reference_counts
                          /\ free_blocks' = free_blocks
                   /\ ~held =>
                          /\ result = referenced.result
                          /\ obtained =
                                 (reference_counts[pbn] = EMPTY_REFERENCE_COUNT)
                          /\ obtained =>
                                 reference_counts'[pbn] =
                                     PROVISIONAL_REFERENCE_COUNT
                          /\ free_blocks' =
                                 IF result = VDO_SUCCESS /\ obtained
                                 THEN [free_blocks EXCEPT ![slab] = @ - 1]
                                 ELSE free_blocks
                   /\ result # VDO_SUCCESS =>
                          /\ reference_counts' = reference_counts
                          /\ free_blocks' = free_blocks
                          /\ ~obtained]_vars

\* A lock that had obtained its provisional reference has been through
\* acquire_provisional_reference once more: the block is provisionally
\* referenced and the slab has one free block fewer than it holds blocks.
C39_Witness ==
    /\ reference_call.type = "provisional"
    /\ reference_call.had_provisional_reference
    /\ reference_call.has_provisional_reference
    /\ reference_call.result = VDO_SUCCESS
    /\ reference_counts[reference_call.pbn] = PROVISIONAL_REFERENCE_COUNT
    /\ free_blocks[reference_call.slab] = SlabBlocks - 1

\* ------------------------------------------------------------- Part 11: the end of a slab's drain
\* notify_ref_counts_are_drained: the drain of the slab is finished with the
\* result given.
notify_ref_counts_are_drained(slab, result) ==
    finish_vdo_draining_with_result(slab, result)

\* The reference counts of a draining slab, with nothing of theirs in
\* flight, tell the slab that they have drained.
NotifyRefCountsAreDrained(result) ==
    /\ is_vdo_state_draining(vdo_slab.state)
    /\ vdo_slab.reference_counts.allocated
    /\ ~are_ref_counts_active(vdo_slab.reference_counts)
    /\ vdo_slab' = notify_ref_counts_are_drained(vdo_slab, result)
    /\ outside_slab

NextDrain ==
    \/ NextSlab
    \/ \E result \in {VDO_SUCCESS, VDO_READ_ONLY} :
           NotifyRefCountsAreDrained(result)

SpecDrain == InitKvioPath /\ [][NextDrain]_vars

\* A drain of the slab completes in this step: the slab comes to the state
\* that follows its draining operation.
drain_completes ==
    /\ is_vdo_state_draining(vdo_slab'.operation)
    /\ vdo_slab'.state # vdo_slab.state
    /\ vdo_slab'.state = vdo_slab'.next_state

\* Neither the journal of the slab nor the reference counts it has have
\* anything in flight.
slab_is_inactive(slab) ==
    /\ ~is_slab_journal_active(slab.journal)
    /\ \/ ~slab.reference_counts.allocated
       \/ ~are_ref_counts_active(slab.reference_counts)

\* The step is a call of notify_ref_counts_are_drained.
notified_of_drained_ref_counts ==
    \E result \in {VDO_SUCCESS, VDO_READ_ONLY} :
        NotifyRefCountsAreDrained(result)

\* C40 (as stated): no drain of a slab completes, by whatever path, while
\* the journal of the slab or the reference counts it has are active.
C40_DrainNeverCompletesWhileActive ==
    [][drain_completes => slab_is_inactive(vdo_slab')]_vars

\* C40 (what holds): a drain that completes by any path but
\* notify_ref_counts_are_drained completes with the journal inactive and the
\* reference counts absent or inactive; notify_ref_counts_are_drained
\* completes the drain with the result it is given and leaves the journal
\* and the reference counts as they are; and a slab drained for scrubbing
\* has the status SLAB_REBUILDING from the step that starts the drain.
C40_DrainedByCheckWhenInactive ==
    [][/\ (drain_completes /\ ~notified_of_drained_ref_counts) =>
              slab_is_inactive(vdo_slab')
       /\ \A result \in {VDO_SUCCESS, VDO_READ_ONLY} :
              NotifyRefCountsAreDrained(result) =>
                  /\ drain_completes
                  /\ vdo_slab'.result = result
                  /\ vdo_slab'.journal = vdo_slab.journal
                  /\ vdo_slab'.reference_counts = vdo_slab.reference_counts
       /\ vdo_slab'.state = "ADMIN_STATE_SCRUBBING" =>
              vdo_slab'.status = SLAB_REBUILDING
       /\ scrub_next_slab => vdo_slab'.status = SLAB_REBUILDING]_vars

\* A save has completed while the write of the slab journal is in flight.
C40_Witness ==
    /\ vdo_slab.operation = "ADMIN_STATE_SAVING"
    /\ vdo_slab.state = "ADMIN_STATE_SAVED"
    /\ is_slab_journal_active(vdo_slab.journal)
    /\ vdo_slab.reference_counts.allocated
    /\ ~are_ref_counts_active(vdo_slab.reference_counts)

====
